---- MODULE Spec2Model ----
(***************************************************************************)
(* The request/response engine of BaseConnection                           *)
(* (src/packages/tsrpc-base/src/base/BaseConnection.ts): callApi and its   *)
(* stages, the pending map, the wait for the return, abort / abortByKey /  *)
(* abortAll, the dispatch of inbound res/err envelopes and _disconnect.    *)
(*                                                                         *)
(* One step of the model is one run-to-completion block of the code: from  *)
(* an entry point or the resumption of an `await` up to the next `await`.  *)
(* Time is abstract: an armed timer may fire at any later step.            *)
(***************************************************************************)
EXTENDS Integers, FiniteSets, Sequences, TLC

\* ------------------------------------------------------------------ bounds
\* Number of callApi invocations on the connection.
MaxCalls == 2
\* How many times sendMsg is called, and how many frames the transport gives.
MaxMsgs == 1
MaxFrames == 2
MaxP0Calls == 3
MaxHeartbeats == 3
TickMs == 1000

\* ------------------------------------------------------- program constants
\* defaultBaseConnectionOptions.callApiTimeout
DefaultCallApiTimeout == 15000
\* defaultBaseConnectionOptions.heartbeatSendInterval
DefaultHeartbeatSendInterval == 1000
DefaultHeartbeatRecvTimeout == 5000

Calls == 1..MaxCalls
Msgs == 1..MaxMsgs
Frames == 1..MaxFrames
P0Calls == 1..MaxP0Calls

\* `undefined` of an optional field.
Undefined == "undefined"

\* TransportOptions.timeout: undefined, 0 or a positive number of ms.
NoTimeoutOption == [defined |-> FALSE, ms |-> 0]
TimeoutOption(ms) == [defined |-> TRUE, ms |-> ms]
TimeoutOptions == {NoTimeoutOption, TimeoutOption(0), TimeoutOption(DefaultCallApiTimeout)}
\* BaseConnectionOptions.callApiTimeout: 0 (none) or a positive number of ms.
CallApiTimeouts == {0, DefaultCallApiTimeout}
\* BaseConnectionOptions.heartbeatRecvTimeout
HeartbeatRecvTimeouts == {2 * TickMs, DefaultHeartbeatRecvTimeout}
\* TransportOptions.abortKey of a call, and the keys abortByKey is called with.
AbortKeys == {Undefined, "K"}
AbortByKeyArgs == {"K", "K2"}

\* -------------------------------------------------------------- envelopes
\* An err envelope { type: 'err', sn, err: TsrpcError of the type }, and no
\* envelope.
ErrEnvelope(sn, errType) == [type |-> "err", sn |-> sn, errType |-> errType]
NoEnvelope == [type |-> "none", sn |-> 0, errType |-> ""]

\* ---------------------------------------------------------------- returns
\* ApiReturn values, as {isSucc, type, code, message}; a successful return has
\* no error fields.
MkReturn(s, t, c, m) == [isSucc |-> s, type |-> t, code |-> c, message |-> m]

\* No value: an unresolved promise, an unset local.
None == MkReturn(FALSE, "none", "", "")
\* A rejection of the promise (an exception), which is no ApiReturn.
Rejection == MkReturn(FALSE, "rejection", "", "")

\* { isSucc: true, res: transportData.body }
ResReturn == MkReturn(TRUE, "", "", "res")
\* { isSucc: false, err: transportData.err }: the error of the envelope
ErrReturn(err) == MkReturn(FALSE, err, "", "err")
\* a return substituted by a middleware of the preCallApiReturn flow
FlowReturn == MkReturn(TRUE, "", "", "flow")
\* preCall.return: a return supplied by a middleware of the preCallApi flow
SuppliedReturn == MkReturn(TRUE, "", "", "preCall.return")

\* variant: the timer resolves with another code
M_TimeoutReturn == MkReturn(FALSE, "NetworkError", "LOST_CONN", "Request Timeout")
\* _waitApiReturn's timer callback value
TimeoutReturn == MkReturn(FALSE, "NetworkError", "TIMEOUT", "Request Timeout")

\* the value _disconnect passes to every onReturn
LostConnReturn == MkReturn(FALSE, "NetworkError", "LOST_CONN", "Disconnected to server")

\* _doCallApi's return when the send result is not isSucc
SendErrReturn == MkReturn(FALSE, "LocalError", "", "opSend.errMsg")


\* ------------------------------------------------------------------ state
VARIABLES
    status,          \* _status
    disconnecting,   \* _disconnecting is set
    heartbeat,       \* _heartbeat is set
    optHeartbeat,    \* options.heartbeat
    heartbeatSendInterval, \* options.heartbeatSendInterval
    callApiTimeout,  \* options.callApiTimeout
    callApiSn,       \* _callApiSn: the last sn issued
    pending,         \* _pendingCallApis: sn -> the abortKey of the item stored under it
    item,            \* the PendingCallApiItem of each call: isAborted, onReturn set
    pc,              \* where each callApi invocation is suspended
    optTimeout,      \* options.timeout of the invocation, until _doCallApi reads it
    sendStage,       \* the state of promiseSend (_sendTransportData) of each call
    timer,           \* the timer of _waitApiReturn is armed
    waitRes,         \* the resolution of promiseReturn (_waitApiReturn)
    ret,             \* the local `ret` of callApi, and its final value
    \* history variables
    onReturnCalls,   \* number of invocations of item.onReturn
    onReturnAborted, \* onReturn was invoked on an item whose isAborted was set
    onAbortCalls,    \* number of times abort reached its onAbort stage for the item
    timerFired,      \* number of runs of the timer callback of _waitApiReturn
    abortNoop,       \* abort(sn) was called while callApi was suspended, and found no item
    lostConnMissed,  \* a _disconnect found the call in the map and did not fail it
    lateRecv,        \* an envelope for the sn came after the wait was resolved or the item aborted
    lateAbort,       \* abort(sn) was called for an issued sn and found no item
    keyAborted,      \* the item was aborted by abortByKey
    remoteErrLogged, \* _recvApiReturn has logged an err envelope with sn 0
    remoteProtoInfo, \* _remoteProtoInfo is set
    postSendData,    \* the number of executions of the postSendData flow for the frame of
                     \* each call (api), each sendMsg (msg) and each err answer (err)
    reqProtoInfo,    \* reqProtoInfo[c]: whether the req envelope _doCallApi made for the
                     \* call has protoInfo: "included" or "omitted" ("unbuilt": no req yet)
    msgPc,           \* msgPc[m]: where the m-th sendMsg is
    msgRet,          \* msgRet[m]: the OpResult the m-th sendMsg resolved to
    msgPost,         \* msgPost[m]: the m-th sendMsg has run the postSendMsg flow
    framePc,         \* framePc[f]: where the f-th frame given to _recvData is
    frameTo,         \* frameTo[f]: the type of the transport data dispatched for the frame
    frameReply,      \* frameReply[f]: the envelope given to _sendTransportData for the frame
    frameRet,        \* frameRet[f]: what _recvData returned for the frame
    initLog,         \* the sends in the order of their initiation
    sendLog,         \* the sends in the order in which their frame was handed to _sendData
    inConnections,   \* the connection is a member of server.connections (never for a
                     \* connection that is not a BaseServerConnection)
    discLog,         \* the steps of the last disconnect that was started, in order
    disconnectRet,   \* what the last invocation of _disconnect returned: "started" (the
                     \* promise of the disconnect it started), "promise" (that of the
                     \* disconnect in flight), "succ" or "err"
    p0CallApiSn,     \* part_000: the last value of the Counter _callApiSn
    p0Pending,       \* part_000: the keys of _pendingCallApis
    p0Aborted,       \* part_000: p0Aborted[c]: pendingItem.isAborted of the c-th callApi
    p0Pc,            \* part_000: where the c-th callApi is suspended
    p0ReqSn,         \* part_000: the sn of the req envelope made for the c-th callApi (0: none yet)
    heartbeatRecvTimeout, \* options.heartbeatRecvTimeout
    hbSn,            \* the last value of the Counter _heartbeat.sn (0: none handed out)
    recvTimers,      \* the time left of every armed receive-timeout timer; the last
                     \* one is the one _heartbeat.recvTimeout refers to
    sendTimer,       \* the time left of the timer _heartbeat.sendTimer refers to (-1: none armed)
    straySend,       \* the time left of the armed send timers that no handle refers to
    idle,            \* ms since the connection became Connected or last received a heartbeat
    hbRecv,          \* number of heartbeat envelopes received so far
    hbPongs,         \* number of pongs _recvHeartbeat has taken since the connection became Connected
    pongAges,        \* the ms since each pong _recvHeartbeat has taken since the connection
                     \* became Connected and that no later ping has followed yet
    hbLog,           \* the heartbeats given to _sendTransportData since the connection became Connected
    discReason,      \* the reason of the last _disconnect that was started
    lastSet,         \* what the last assignment to `status` did
    recorded         \* what this run records: "abort" (abortNoop), "disconnect"
                     \* (lostConnMissed), "recv" (lateRecv), "abortAgain" (lateAbort),
                     \* "abortByKey" (keyAborted, and lateRecv of those items),
                     \* "steps" (discLog, disconnectRet), "order" (discLog,
                     \* lostConnMissed), "sendOrder" (initLog, sendLog),
                     \* "remoteErr" (remoteErrLogged),
                     \* "heartbeat" (idle, hbPongs, pongAges, hbLog, discReason, lastSet) or "none"

callVars == <<pc, optTimeout, sendStage, timer, waitRes, ret>>
countVars == <<onReturnCalls, onReturnAborted, onAbortCalls, timerFired>>
lateVars == <<lateRecv, lateAbort, keyAborted, remoteErrLogged>>
histVars == <<countVars, abortNoop, lostConnMissed, lateVars>>
optionVars == <<callApiTimeout, optHeartbeat, heartbeatSendInterval, heartbeatRecvTimeout,
                recorded>>
discVars == <<discLog, disconnectRet, inConnections>>
timerVars == <<recvTimers, sendTimer, straySend>>
hbVars == <<hbSn, timerVars, idle, hbRecv, hbPongs, pongAges, hbLog, discReason, lastSet>>
connVars == <<status, disconnecting, heartbeat, hbVars, optionVars, discVars>>
msgVars == <<msgPc, msgRet, msgPost>>
frameVars == <<framePc, frameTo, frameReply, frameRet>>
sendLogVars == <<initLog, sendLog>>
ioVars == <<msgVars, frameVars, sendLogVars>>
protoVars == <<remoteProtoInfo, reqProtoInfo>>
p0Vars == <<p0CallApiSn, p0Pending, p0Aborted, p0Pc, p0ReqSn>>
vars == <<connVars, p0Vars, protoVars, postSendData, callApiSn, pending, item, callVars, histVars, ioVars>>

NoItem == [isAborted |-> FALSE, onReturn |-> FALSE]
\* What an assignment to `status` did: it changed the status, it called
\* _startHeartbeat, the number of executions of the postConnect flow it started.
Assignment(changed, startHeartbeat, postConnect) ==
    [changed |-> changed, startHeartbeat |-> startHeartbeat, postConnect |-> postConnect]
NoAssignment == Assignment(FALSE, FALSE, 0)
\* The empty map.
NoPending == [sn \in {} |-> Undefined]

InitConn ==
    /\ status = "Disconnected"
    /\ disconnecting = FALSE
    /\ heartbeat = FALSE
    /\ discLog = <<>>
    /\ disconnectRet = "none"
    /\ msgPc = [m \in Msgs |-> "idle"]
    /\ msgRet = [m \in Msgs |-> "none"]
    /\ msgPost = [m \in Msgs |-> FALSE]
    /\ framePc = [f \in Frames |-> "idle"]
    /\ frameTo = [f \in Frames |-> "none"]
    /\ frameReply = [f \in Frames |-> NoEnvelope]
    /\ frameRet = [f \in Frames |-> "none"]
    /\ initLog = <<>>
    /\ sendLog = <<>>
    /\ callApiTimeout \in CallApiTimeouts
    /\ callApiSn = 0
    /\ pending = NoPending
    /\ item = [c \in Calls |-> NoItem]
    /\ pc = [c \in Calls |-> "idle"]
    /\ optTimeout = [c \in Calls |-> NoTimeoutOption]
    /\ sendStage = [c \in Calls |-> "none"]
    /\ timer = [c \in Calls |-> FALSE]
    /\ waitRes = [c \in Calls |-> None]
    /\ ret = [c \in Calls |-> None]
    /\ onReturnCalls = [c \in Calls |-> 0]
    /\ onReturnAborted = [c \in Calls |-> FALSE]
    /\ onAbortCalls = [c \in Calls |-> 0]
    /\ abortNoop = [c \in Calls |-> FALSE]
    /\ lostConnMissed = [c \in Calls |-> FALSE]
    /\ timerFired = [c \in Calls |-> 0]
    /\ lateRecv = [c \in Calls |-> FALSE]
    /\ lateAbort = [c \in Calls |-> FALSE]
    /\ remoteErrLogged = FALSE
    /\ remoteProtoInfo = FALSE
    /\ postSendData = [api |-> [c \in Calls |-> 0], msg |-> [m \in Msgs |-> 0],
                       err |-> [f \in Frames |-> 0]]
    /\ reqProtoInfo = [c \in Calls |-> "unbuilt"]
    /\ keyAborted = [c \in Calls |-> FALSE]
    /\ hbSn = 0
    /\ recvTimers = <<>>
    /\ sendTimer = -1
    /\ straySend = <<>>
    /\ idle = 0
    /\ hbRecv = 0
    /\ hbPongs = 0
    /\ pongAges = <<>>
    /\ hbLog = <<>>
    /\ discReason = "none"
    /\ lastSet = NoAssignment
    /\ p0CallApiSn = 0
    /\ p0Pending = {}
    /\ p0Aborted = [c \in P0Calls |-> FALSE]
    /\ p0Pc = [c \in P0Calls |-> "idle"]
    /\ p0ReqSn = [c \in P0Calls |-> 0]

\* A connection of a client: it is in the connections of no server.
InitState == InitConn /\ inConnections = FALSE
\* A BaseServerConnection: it is in server.connections.
InitServerConn == InitConn /\ inConnections = TRUE

\* options.heartbeat = false
HeartbeatOff ==
    /\ optHeartbeat = FALSE /\ heartbeatSendInterval = 0
    /\ heartbeatRecvTimeout = DefaultHeartbeatRecvTimeout
\* the default options: heartbeat with pings
HeartbeatOn ==
    /\ optHeartbeat = TRUE /\ heartbeatSendInterval = DefaultHeartbeatSendInterval
    /\ heartbeatRecvTimeout = DefaultHeartbeatRecvTimeout
\* any heartbeat options: off or on, receive-only (interval 0) or with pings
HeartbeatAny ==
    /\ optHeartbeat \in BOOLEAN
    /\ heartbeatSendInterval \in {0, DefaultHeartbeatSendInterval}
    /\ heartbeatRecvTimeout \in HeartbeatRecvTimeouts

\* The runs about the calls are runs of a connection without heartbeat: its
\* part in them, the _disconnect of a receive timeout, is a _disconnect that
\* may come at any moment anyway.
Init == InitState /\ HeartbeatOff /\ recorded = "none"
\* The runs that record abortNoop, lostConnMissed, ...
InitAbort == InitState /\ HeartbeatOff /\ recorded = "abort"
InitDisconnect == InitState /\ HeartbeatOff /\ recorded = "disconnect"
InitRecv == InitState /\ HeartbeatOff /\ recorded = "recv"
InitAbortAgain == InitState /\ HeartbeatOff /\ recorded = "abortAgain"
InitAbortByKey == InitState /\ HeartbeatOff /\ recorded = "abortByKey"
\* The runs about _disconnect are runs with the default heartbeat.
InitSteps == InitState /\ HeartbeatOn /\ recorded = "steps"
InitOrder == InitState /\ HeartbeatOn /\ recorded = "order"
InitRemoteErr == InitState /\ HeartbeatOff /\ recorded = "remoteErr"
\* The runs about the heartbeat record it, under any heartbeat options.
InitHeartbeat ==
    /\ InitState /\ HeartbeatAny /\ recorded = "heartbeat"
    /\ callApiTimeout = DefaultCallApiTimeout
\* The runs about the order of the sends record it.
InitSendOrder == InitState /\ HeartbeatOff /\ recorded = "sendOrder"

\* ------------------------------------------------------------ collaborators
\* What a flow's middlewares do with the data: pass it on, cancel (return
\* null), throw, or (preCallApi) supply a return / (preCallApiReturn) replace it.
PreCallOutcomes == {"pass", "cancel", "throw", "return"}
PreReturnOutcomes == {"pass", "cancel", "throw", "replace"}
PreSendDataOutcomes == {"pass", "cancel", "throw"}
\* Flow.exec: null when a middleware cancels or throws (onError), else the data.
FlowExec(o) == IF o \in {"cancel", "throw"} THEN "null" ELSE o

\* TransportDataUtil.encodeBody* / encodeBox*: an OpResult
EncodeOutcomes == {"ok", "bodyErr", "boxErr"}

\* Counter.getNext()
CounterGetNext(last) == last + 1
\* Counter.getNext(true): the value of the counter, which does not advance
CounterPeek(last) == last

\* ----------------------------------------------------------- the records
\* The log of initiations after one more send.
Initiated(id) == IF recorded = "sendOrder" THEN Append(initLog, id) ELSE initLog
\* The log of frames handed to _sendData after one more.
Handed(id) == IF recorded = "sendOrder" THEN Append(sendLog, id) ELSE sendLog

\* ------------------------------------------------------------- the status
\* `set status`: nothing happens when the status is the same.
SetStatus(newStatus) ==
    status' = IF status = newStatus THEN status ELSE newStatus

\* _startHeartbeat: _heartbeat is created when there is none and
\* heartbeatSendInterval is not 0.
StartHeartbeat == heartbeat \/ heartbeatSendInterval # 0

\* A heartbeat envelope.
Heartbeat(sn, isReply) == [sn |-> sn, isReply |-> isReply]
\* The log of the heartbeats given to _sendTransportData after one more.
SentHeartbeat(e) == IF recorded = "heartbeat" THEN Append(hbLog, e) ELSE hbLog
\* What the run records of an assignment to `status`.
Assigned(a) == IF recorded = "heartbeat" THEN a ELSE lastSet

\* variant: the old receive timeout is left armed
M_ClearRecvTimeout(ts) == ts
\* clearTimeout(this._heartbeat.recvTimeout)
ClearRecvTimeout(ts) == IF ts = <<>> THEN ts ELSE SubSeq(ts, 1, Len(ts) - 1)

\* _resetHeartbeatTimeout on a connection whose _heartbeat is (hb) or is not
\* there: nothing without it; else the old timer is cleared and a new one
\* armed with heartbeatRecvTimeout.
ResetHeartbeatTimeout(hb, ts) ==
    IF hb THEN Append(ClearRecvTimeout(ts), heartbeatRecvTimeout) ELSE ts

\* variant: the setter starts the heartbeat whatever options.heartbeat is
M_SetterStartsHeartbeat == TRUE
\* `this.options.heartbeat && this._startHeartbeat()`
SetterStartsHeartbeat == optHeartbeat

\* The transport starts to connect.
Connect ==
    /\ status = "Disconnected"
    /\ ~disconnecting
    /\ SetStatus("Connecting")
    /\ lastSet' = Assigned(Assignment(TRUE, FALSE, 0))
    /\ UNCHANGED <<hbSn, timerVars, idle, hbRecv, hbPongs, pongAges, hbLog, discReason>>
    /\ UNCHANGED <<disconnecting, heartbeat, optionVars, p0Vars, protoVars, postSendData, ioVars, discVars, callApiSn, pending,
                   item, callVars, histVars>>

\* The transport is connected: `status = Connected` starts the heartbeat when
\* options.heartbeat is set, and runs the postConnect flow. _startHeartbeat
\* returns when there is a _heartbeat; else, when heartbeatSendInterval is
\* not 0, it creates one and sends the first ping; then it resets the receive
\* timeout.
ConnectOk ==
    LET created == SetterStartsHeartbeat /\ ~heartbeat /\ heartbeatSendInterval # 0 IN
    /\ status = "Connecting"
    /\ SetStatus("Connected")
    /\ heartbeat' = IF SetterStartsHeartbeat THEN StartHeartbeat ELSE heartbeat
    /\ hbSn' = IF created THEN CounterGetNext(0) ELSE hbSn
    /\ hbLog' = IF recorded # "heartbeat" THEN hbLog
                ELSE IF created THEN <<Heartbeat(CounterGetNext(0), FALSE)>> ELSE <<>>
    /\ recvTimers' = IF SetterStartsHeartbeat /\ ~heartbeat
                     THEN ResetHeartbeatTimeout(created, recvTimers) ELSE recvTimers
    /\ idle' = 0
    /\ hbPongs' = 0
    /\ pongAges' = <<>>
    /\ lastSet' = Assigned(Assignment(TRUE, SetterStartsHeartbeat, 1))
    /\ UNCHANGED <<sendTimer, straySend, hbRecv, discReason>>
    /\ UNCHANGED <<disconnecting, optionVars, p0Vars, protoVars, postSendData, ioVars, discVars, callApiSn, pending, item,
                   callVars, histVars>>

\* An assignment to `status` of the status it has: the setter returns.
AssignSameStatus ==
    /\ lastSet' = Assigned(Assignment(FALSE, FALSE, 0))
    /\ UNCHANGED <<status, disconnecting, heartbeat, hbSn, timerVars, idle, hbRecv, hbPongs,
                   pongAges, hbLog, discReason, optionVars, discVars>>
    /\ UNCHANGED <<p0Vars, protoVars, postSendData, callApiSn, pending, item, callVars, histVars, ioVars>>

\* ------------------------------------------------------ the pending items
\* The keys of the map.
PendingSns == DOMAIN pending
\* this._pendingCallApis.delete(sn) for every sn of S
MapDelete(S) == [sn \in (DOMAIN pending) \ S |-> pending[sn]]
\* this._pendingCallApis.set(sn, item)
MapSet(sn, pendingItem) ==
    [k \in (DOMAIN pending) \cup {sn} |-> IF k = sn THEN pendingItem ELSE pending[k]]
\* The PendingCallApiItem callApi creates: { sn, apiName, req, abortKey,
\* abortSignal }; its onReturn and isAborted, which are assigned later, are in
\* item[sn].
PendingItem(sn, abortKey) == [sn |-> sn, abortKey |-> abortKey]

\* The call is suspended in callApi and its promise has not settled.
Unsettled(c) == pc[c] \in {"preCallApiFlow", "send", "waitReturn", "preCallApiReturnFlow"}

\* callApi after _doCallApi has returned `r`: PROMISE_ABORTED when the item is
\* aborted, else the preCallApiReturn flow is started with it.
AfterDoCallApiPc(c, aborted) ==
    IF aborted THEN "aborted" ELSE "preCallApiReturnFlow"

\* A promise keeps its first resolution.
Resolve(old, v) == IF old = None THEN v ELSE old

\* promiseReturn of the calls of S is resolved with v (by onReturn or by the
\* timer), and every call of S that awaits it resumes: _doCallApi returns
\* PROMISE_ABORTED for an aborted item, else the return.
WaitResolved(S, v) ==
    /\ waitRes' = [c \in Calls |-> IF c \in S THEN Resolve(waitRes[c], v) ELSE waitRes[c]]
    /\ pc' = [c \in Calls |->
                IF c \in S /\ pc[c] = "waitReturn"
                THEN AfterDoCallApiPc(c, item[c].isAborted) ELSE pc[c]]
    /\ ret' = [c \in Calls |->
                IF c \in S /\ pc[c] = "waitReturn" /\ ~item[c].isAborted
                THEN Resolve(waitRes[c], v) ELSE ret[c]]

\* variant: onReturn leaves the timer armed
M_OnReturnTimer(S) == timer
\* the closure of _waitApiReturn: clearTimeout(timer)
OnReturnTimer(S) == [c \in Calls |-> IF c \in S THEN FALSE ELSE timer[c]]

\* the closure of _waitApiReturn: this._pendingCallApis.delete(pendingItem.sn)
OnReturnDelete(S) == MapDelete(S)

\* item.onReturn(v) for every sn of S: the closure of _waitApiReturn clears the
\* timer, deletes the sn from the map and resolves promiseReturn.
OnReturn(S, v) ==
    /\ timer' = OnReturnTimer(S)
    /\ pending' = OnReturnDelete(S)
    /\ WaitResolved(S, v)
    /\ onReturnCalls' = [c \in Calls |->
                     IF c \in S THEN onReturnCalls[c] + 1 ELSE onReturnCalls[c]]
    /\ onReturnAborted' = [c \in Calls |->
                     onReturnAborted[c] \/ (c \in S /\ item[c].isAborted)]

\* variant: abort acts on every issued sn, in the map or not
M_AbortTargets(sn) == IF sn \in Calls /\ pc[sn] # "idle" THEN {sn} ELSE {}
\* abort(sn): the item found in the map, if any
AbortTargets(sn) == IF sn \in PendingSns THEN {sn} ELSE {}

\* variant: abortByKey takes the items without a key too
M_AbortByKeyTargets(abortKey) ==
    {pending[k].sn : k \in {k \in PendingSns : pending[k].abortKey \in {abortKey, Undefined}}}
\* abortByKey(abortKey): the items of the map with that key
AbortByKeyTargets(abortKey) ==
    {pending[k].sn : k \in {k \in PendingSns : pending[k].abortKey = abortKey}}

\* abortAll(): every item of the map
AbortAllTargets == {pending[k].sn : k \in PendingSns}

\* variant: abort leaves the item in the map
M_AbortDelete(S) == pending
\* abort: this._pendingCallApis.delete(sn)
AbortDelete(S) == MapDelete(S)

\* abort(sn) for every sn of S (all found in the map): delete, clear onReturn,
\* set isAborted, call onAbort.
AbortItems(S) ==
    /\ pending' = AbortDelete(S)
    /\ item' = [c \in Calls |->
                  IF c \in S THEN [onReturn |-> FALSE, isAborted |-> TRUE] ELSE item[c]]
    /\ onAbortCalls' = [c \in Calls |->
                  IF c \in S THEN onAbortCalls[c] + 1 ELSE onAbortCalls[c]]

Abort(sn) ==
    /\ AbortItems(AbortTargets(sn))
    /\ abortNoop' = [c \in Calls |->
          abortNoop[c] \/ (recorded = "abort" /\ c = sn /\ Unsettled(c) /\ AbortTargets(sn) = {})]
    /\ lateAbort' = [c \in Calls |->
          lateAbort[c] \/ (recorded = "abortAgain" /\ c = sn /\ pc[c] # "idle" /\ AbortTargets(sn) = {})]
    /\ UNCHANGED <<connVars, p0Vars, protoVars, postSendData, ioVars, callApiSn, callVars, onReturnCalls, onReturnAborted,
                   timerFired, lostConnMissed, lateRecv, keyAborted, remoteErrLogged>>

AbortByKey(abortKey) ==
    /\ AbortItems(AbortByKeyTargets(abortKey))
    /\ keyAborted' = [c \in Calls |->
          keyAborted[c] \/ (recorded = "abortByKey" /\ c \in AbortByKeyTargets(abortKey))]
    /\ UNCHANGED <<connVars, p0Vars, protoVars, postSendData, ioVars, callApiSn, callVars, onReturnCalls, onReturnAborted,
                   timerFired, abortNoop, lostConnMissed, lateRecv, lateAbort,
                   remoteErrLogged>>

AbortAll ==
    /\ AbortItems(AbortAllTargets)
    /\ UNCHANGED <<connVars, p0Vars, protoVars, postSendData, ioVars, callApiSn, callVars, onReturnCalls, onReturnAborted,
                   timerFired, abortNoop, lostConnMissed, lateVars>>

\* ---------------------------------------------------------------- callApi
\* options.timeout ?? this.options.callApiTimeout
EffectiveTimeout(opt) == IF opt.defined THEN opt.ms ELSE callApiTimeout

\* _waitApiReturn: `if (timeout)` arms the timer
TimerArmed(timeout) == timeout # 0

\* variant: the sns come in falling order
M_AssignedSn == IF callApiSn = 0 THEN MaxCalls ELSE callApiSn - 1
\* const sn = this._callApiSn.getNext()
AssignedSn == CounterGetNext(callApiSn)

\* callApi up to the await of the preCallApi flow: take the next sn, create the
\* pending item and put it in the map.
CallApi(opt, abortKey) ==
    LET sn == AssignedSn IN
    /\ sn \in Calls
    /\ pc[sn] = "idle"
    /\ callApiSn' = sn
    /\ item' = [item EXCEPT ![sn] = NoItem]
    /\ pending' = MapSet(sn, PendingItem(sn, abortKey))
    /\ pc' = [pc EXCEPT ![sn] = "preCallApiFlow"]
    /\ optTimeout' = [optTimeout EXCEPT ![sn] = opt]
    /\ initLog' = Initiated(<<"api", sn>>)
    /\ UNCHANGED <<connVars, p0Vars, protoVars, postSendData, msgVars, frameVars, sendLog, sendStage, timer, waitRes, ret,
                   histVars>>

\* _sendTransportData and _sendBox up to the await of the preSendData flow:
\* the state promiseSend is left in.
SendStart(enc) ==
    IF status # "Connected" THEN "failed"
    ELSE IF enc # "ok" THEN "failed"
    ELSE "preSendData"

\* variant: _sendBox does not look at the status after the preSendData flow
M_SendAfterFlow(o) ==
    IF FlowExec(o) = "null" THEN "cancelled" ELSE "sendData"
\* _sendBox after the preSendData flow: cancelled, it returns PROMISE_ABORTED;
\* not Connected any more, an error; else it calls _sendData.
SendAfterFlow(o) ==
    IF FlowExec(o) = "null" THEN "cancelled"
    ELSE IF status # "Connected" THEN "failed"
    ELSE "sendData"

\* variant: a failed send is thrown
M_SendFailed(c) ==
    /\ pc' = [pc EXCEPT ![c] = "rejected"]
    /\ ret' = [ret EXCEPT ![c] = Rejection]
\* variant: after a failed send _doCallApi awaits promiseReturn all the same
M_SendFailedWaits(c) ==
    IF waitRes[c] = None
    THEN /\ pc' = [pc EXCEPT ![c] = "waitReturn"]
         /\ UNCHANGED ret
    ELSE /\ pc' = [pc EXCEPT ![c] = AfterDoCallApiPc(c, item[c].isAborted)]
         /\ ret' = [ret EXCEPT ![c] = IF item[c].isAborted THEN ret[c] ELSE waitRes[c]]
\* _doCallApi resumes from `await promiseSend` with a failed send: it returns
\* a LocalError, which callApi takes on to the preCallApiReturn flow unless
\* the item is aborted.
SendFailed(c) ==
    /\ pc' = [pc EXCEPT ![c] = AfterDoCallApiPc(c, item[c].isAborted)]
    /\ ret' = [ret EXCEPT ![c] = IF item[c].isAborted THEN ret[c] ELSE SendErrReturn]

\* variant: _doCallApi does not go on after the send
M_SendSucceeded(c) == UNCHANGED <<pc, ret>>
\* _doCallApi resumes from `await promiseSend` with a successful send and
\* awaits promiseReturn, which may be resolved already.
SendSucceeded(c) ==
    IF waitRes[c] = None
    THEN /\ pc' = [pc EXCEPT ![c] = "waitReturn"]
         /\ UNCHANGED ret
    ELSE /\ pc' = [pc EXCEPT ![c] = AfterDoCallApiPc(c, item[c].isAborted)]
         /\ ret' = [ret EXCEPT ![c] = IF item[c].isAborted THEN ret[c] ELSE waitRes[c]]

\* variant: every req envelope has the local ProtoInfo
M_ReqProtoInfo == "included"
\* _doCallApi: the req envelope gets the local ProtoInfo when _remoteProtoInfo
\* is not set.
ReqProtoInfo == IF ~remoteProtoInfo THEN "included" ELSE "omitted"

\* variant: callApi does not look at preCall.return
M_PreCallSupplied(o) == FALSE
\* `preCall.return ?? await this._doCallApi(...)`: _doCallApi is not called
\* when the preCallApi flow supplied a return.
PreCallSupplied(o) == FlowExec(o) = "return"

\* callApi resumes from the preCallApi flow. Cancelled or aborted: abort and
\* return PROMISE_ABORTED. A return supplied by the flow: on to the
\* preCallApiReturn flow. Else _doCallApi: start the send and the wait (timer,
\* onReturn) and await promiseSend.
PreCallDone(c, o, enc) ==
    /\ pc[c] = "preCallApiFlow"
    /\ optTimeout' = [optTimeout EXCEPT ![c] = NoTimeoutOption]
    /\ IF FlowExec(o) = "null" \/ item[c].isAborted
       THEN /\ AbortItems(AbortTargets(c))
            /\ pc' = [pc EXCEPT ![c] = "aborted"]
            /\ UNCHANGED <<sendStage, timer, waitRes, ret, reqProtoInfo>>
       ELSE IF PreCallSupplied(o)
       THEN /\ pc' = [pc EXCEPT ![c] = "preCallApiReturnFlow"]
            /\ ret' = [ret EXCEPT ![c] = SuppliedReturn]
            /\ UNCHANGED <<pending, item, onAbortCalls, sendStage, timer, waitRes,
                           reqProtoInfo>>
       ELSE /\ reqProtoInfo' = [reqProtoInfo EXCEPT ![c] = ReqProtoInfo]
            /\ sendStage' = [sendStage EXCEPT ![c] = SendStart(enc)]
            /\ timer' = [timer EXCEPT ![c] = TimerArmed(EffectiveTimeout(optTimeout[c]))]
            /\ item' = [item EXCEPT ![c].onReturn = TRUE]
            /\ IF SendStart(enc) = "failed"
               THEN SendFailed(c)
               ELSE /\ pc' = [pc EXCEPT ![c] = "send"]
                    /\ UNCHANGED ret
            /\ UNCHANGED <<pending, onAbortCalls, waitRes>>
    /\ UNCHANGED <<connVars, p0Vars, remoteProtoInfo, postSendData, ioVars, callApiSn, onReturnCalls,
                   onReturnAborted, timerFired, abortNoop, lostConnMissed, lateVars>>

\* _sendBox resumes from the preSendData flow.
PreSendDataDone(c, o) ==
    /\ pc[c] = "send"
    /\ sendStage[c] = "preSendData"
    /\ sendStage' = [sendStage EXCEPT ![c] = SendAfterFlow(o)]
    /\ IF SendAfterFlow(o) = "failed"
       THEN SendFailed(c)
       ELSE UNCHANGED <<pc, ret>>
    /\ sendLog' = IF SendAfterFlow(o) = "sendData" THEN Handed(<<"api", c>>) ELSE sendLog
    /\ UNCHANGED <<connVars, p0Vars, protoVars, postSendData, msgVars, frameVars, initLog, callApiSn, pending, item,
                   optTimeout, timer,
                   waitRes, histVars>>

\* variant: the postSendData flow is executed whatever _sendData returned
M_PostSendDataRuns(isSucc) == 1
\* _sendBox after _sendData: the postSendData flow is executed (and not
\* awaited) when opSend.isSucc.
PostSendDataRuns(isSucc) == IF isSucc THEN 1 ELSE 0

\* The transport's _sendData resolves with an OpResult.
SendDataDone(c, isSucc) ==
    /\ pc[c] = "send"
    /\ sendStage[c] = "sendData"
    /\ sendStage' = [sendStage EXCEPT ![c] = IF isSucc THEN "ok" ELSE "failed"]
    /\ IF isSucc THEN SendSucceeded(c) ELSE SendFailed(c)
    /\ postSendData' = [postSendData EXCEPT !.api[c] = @ + PostSendDataRuns(isSucc)]
    /\ UNCHANGED <<connVars, p0Vars, protoVars, ioVars, callApiSn, pending, item, optTimeout, timer,
                   waitRes, histVars>>

\* variant: callApi returns without the delete
M_FinalDelete(c) == pending
\* callApi's last statement: this._pendingCallApis.delete(pendingItem.sn)
FinalDelete(c) == MapDelete({c})

\* callApi resumes from the preCallApiReturn flow: cancelled or aborted, abort
\* and return PROMISE_ABORTED; else delete the item and return the flow's return.
PreReturnDone(c, o) ==
    /\ pc[c] = "preCallApiReturnFlow"
    /\ IF FlowExec(o) = "null" \/ item[c].isAborted
       THEN /\ AbortItems(AbortTargets(c))
            /\ pc' = [pc EXCEPT ![c] = "aborted"]
            /\ UNCHANGED ret
       ELSE /\ ret' = [ret EXCEPT ![c] = IF o = "replace" THEN FlowReturn ELSE ret[c]]
            /\ pending' = FinalDelete(c)
            /\ pc' = [pc EXCEPT ![c] = "resolved"]
            /\ UNCHANGED <<item, onAbortCalls>>
    /\ UNCHANGED <<connVars, p0Vars, protoVars, postSendData, ioVars, callApiSn, optTimeout, sendStage, timer, waitRes,
                   onReturnCalls, onReturnAborted, timerFired, abortNoop,
                   lostConnMissed, lateVars>>

\* The timer of _waitApiReturn fires: delete the sn, resolve promiseReturn.
TimerFire(c) ==
    /\ timer[c]
    /\ timer' = [timer EXCEPT ![c] = FALSE]
    /\ pending' = MapDelete({c})
    /\ WaitResolved({c}, TimeoutReturn)
    /\ timerFired' = [timerFired EXCEPT ![c] = @ + 1]
    /\ UNCHANGED <<connVars, p0Vars, protoVars, postSendData, ioVars, callApiSn, item, optTimeout, sendStage, onReturnCalls,
                   onReturnAborted, onAbortCalls, abortNoop, lostConnMissed, lateVars>>

\* ------------------------------------------------------------- inbound
\* variant: _recvApiReturn without the lookup in the map
M_RecvApiReturnTargets(sn) ==
    IF sn \in Calls /\ item[sn].onReturn THEN {sn} ELSE {}
\* _recvApiReturn: the item whose onReturn is invoked for the sn of the
\* envelope: in the map, not aborted, onReturn set.
RecvApiReturnTargets(sn) ==
    IF sn \in PendingSns /\ ~item[sn].isAborted /\ item[sn].onReturn THEN {sn} ELSE {}

\* variant: an err with sn 0 is given to every pending call
M_ReturnTargets(type, sn) ==
    IF type = "err" /\ sn = 0 THEN {c \in PendingSns : item[c].onReturn}
    ELSE RecvApiReturnTargets(sn)
\* _recvApiReturn: an err with sn = 0 is only logged; else the item for the
\* sn of the envelope gets the return.
ReturnTargets(type, sn) ==
    IF type = "err" /\ sn = 0 THEN {} ELSE RecvApiReturnTargets(sn)

\* _recvTransportData dispatches a res or err envelope to _recvApiReturn.
RecvApiReturn(type, sn, err) ==
    /\ OnReturn(ReturnTargets(type, sn), IF type = "res" THEN ResReturn ELSE ErrReturn(err))
    /\ remoteErrLogged' = (remoteErrLogged \/ (recorded = "remoteErr" /\ type = "err" /\ sn = 0))
    /\ lateRecv' = [c \in Calls |->
          lateRecv[c] \/ (c = sn /\ RecvApiReturnTargets(sn) = {}
                             /\ \/ recorded = "recv" /\ waitRes[c] # None
                                \/ recorded = "abortByKey" /\ keyAborted[c])]
    /\ UNCHANGED <<callApiSn, item, optTimeout, sendStage,
                   onAbortCalls, timerFired, abortNoop, lostConnMissed, lateAbort,
                   keyAborted>>

\* The types of transport data.
TransportDataTypes == {"req", "res", "err", "msg", "heartbeat", "custom"}

\* _recvTransportData: _remoteProtoInfo is assigned when the envelope has a
\* protoInfo, and is left as it is when it has none.
SyncRemoteProtoInfo(protoInfo) == IF protoInfo THEN TRUE ELSE remoteProtoInfo

\* The switch of _recvTransportData: res and err go to _recvApiReturn; req,
\* msg, heartbeat and custom go to _recvApiReq, _recvMsg, _recvHeartbeat and
\* _recvCustom, which change nothing of the calls.
Dispatch(type, sn, err, protoInfo) ==
    /\ remoteProtoInfo' = SyncRemoteProtoInfo(protoInfo)
    /\ UNCHANGED reqProtoInfo
    /\ IF type \in {"res", "err"}
       THEN RecvApiReturn(type, sn, err)
       ELSE UNCHANGED <<callApiSn, pending, item, callVars, histVars>>

\* The transport calls _recvTransportData with a decoded envelope.
RecvTransportData(type, sn, err, protoInfo) ==
    /\ Dispatch(type, sn, err, protoInfo)
    /\ UNCHANGED <<connVars, p0Vars, postSendData, ioVars>>

\* ----------------------------------------------------------- _disconnect
\* variant: _disconnect fails only the calls that await the return
M_DisconnectTargets == {sn \in PendingSns : item[sn].onReturn /\ pc[sn] = "waitReturn"}
\* The items _disconnect fails: v.onReturn?.() for every item of the map
DisconnectTargets == {sn \in PendingSns : item[sn].onReturn}

\* variant: _disconnect goes on from Disconnected
M_DisconnectEarlyReturnFromDisconnected ==
    IF disconnecting THEN "promise"
    ELSE IF status \in {"Connected", "Disconnected"} THEN "none" ELSE "err"
\* variant: _disconnect goes on from Connecting
M_DisconnectEarlyReturnFromConnecting ==
    IF disconnecting THEN "promise"
    ELSE IF status = "Disconnected" THEN "succ"
    ELSE IF status = "Disconnecting" THEN "err" ELSE "none"
\* The early returns of _disconnect: the promise of the disconnect in flight,
\* { isSucc: true } when Disconnected, an error when not Connected; "none"
\* when it goes on.
DisconnectEarlyReturn ==
    IF disconnecting THEN "promise"
    ELSE IF status = "Disconnected" THEN "succ"
    ELSE IF status # "Connected" THEN "err" ELSE "none"

\* variant: Disconnected at once
M_DisconnectingStatus == "Disconnected"
\* this._status = ConnectionStatus.Disconnecting
DisconnectingStatus == "Disconnecting"

\* variant: _doDisconnect before the calls are failed
M_DisconnectBegin == <<"Disconnecting", "stopHeartbeat", "doDisconnect", "LOST_CONN">>
\* The steps of _disconnect up to the await of _doDisconnect, in order.
DisconnectBegin == <<"Disconnecting", "stopHeartbeat", "LOST_CONN", "doDisconnect">>
\* The steps of _disconnect after the await, in order.
DisconnectEnd == <<"Disconnected", "postDisconnect">>

\* How the transport's _doDisconnect ends: it resolves to a success or to a
\* failure, it throws (or rejects), or it is not done when the 3 s are over.
DoDisconnectOutcomes == {"succ", "fail", "throw", "timeout"}

\* variant: the connection is deleted only when the base _disconnect went on
M_ConnectionsDelete(r) == IF r = "none" THEN FALSE ELSE inConnections
\* BaseServerConnection._disconnect: after super._disconnect(...), whose
\* early return would be r, this.server.connections.delete(this). (A
\* connection that is not a BaseServerConnection is in no server.connections.)
ConnectionsDelete(r) == FALSE

\* _disconnect on a Connected connection with no disconnect in flight, up to
\* the await of _doDisconnect: Disconnecting, the heartbeat is stopped, every
\* item with an onReturn is failed with LOST_CONN, _doDisconnect is called.
DisconnectFor(reason, ts) ==
    /\ DisconnectEarlyReturn = "none"
    /\ status' = DisconnectingStatus
    /\ disconnecting' = TRUE
    /\ heartbeat' = FALSE
    /\ hbSn' = 0
    /\ recvTimers' = IF heartbeat THEN ClearRecvTimeout(ts) ELSE ts
    /\ sendTimer' = -1
    /\ idle' = 0
    /\ discReason' = IF recorded = "heartbeat" THEN reason ELSE discReason
    /\ UNCHANGED <<straySend, hbRecv, hbPongs, pongAges, hbLog, lastSet>>
    /\ OnReturn(DisconnectTargets, LostConnReturn)
    /\ lostConnMissed' = [c \in Calls |->
          lostConnMissed[c] \/ (recorded \in {"disconnect", "order"}
                                 /\ c \in PendingSns \ DisconnectTargets)]
    /\ discLog' = IF recorded \in {"steps", "order"} THEN DisconnectBegin ELSE discLog
    /\ disconnectRet' = IF recorded = "steps" THEN "started" ELSE disconnectRet
    /\ inConnections' = ConnectionsDelete(DisconnectEarlyReturn)
    /\ UNCHANGED <<optionVars, p0Vars, protoVars, postSendData, ioVars, callApiSn, item, optTimeout, sendStage,
                   onAbortCalls, timerFired, abortNoop, lateVars>>

\* _disconnect called by the application or by the transport.
Disconnect == DisconnectFor("manual", recvTimers)

\* _disconnect when a disconnect is in flight or the status is not Connected:
\* it returns and changes nothing.
DisconnectRefused ==
    /\ DisconnectEarlyReturn # "none"
    /\ disconnectRet' = IF recorded = "steps" THEN DisconnectEarlyReturn ELSE disconnectRet
    /\ inConnections' = ConnectionsDelete(DisconnectEarlyReturn)
    /\ UNCHANGED <<status, disconnecting, heartbeat, hbVars, optionVars, p0Vars, protoVars, postSendData, ioVars, discLog, callApiSn,
                   pending, item, callVars, histVars>>

\* The race of _doDisconnect and the 3 s ends. Resolved: Disconnected, then
\* the postDisconnect flow. Rejected, because _doDisconnect threw: the rest of
\* the function is skipped. In both cases _disconnecting is cleared.
DoDisconnectDone(o) ==
    /\ disconnecting
    /\ disconnecting' = FALSE
    /\ IF o = "throw"
       THEN UNCHANGED <<status, discLog>>
       ELSE /\ status' = "Disconnected"
            /\ discLog' = IF recorded \in {"steps", "order"}
                          THEN discLog \o DisconnectEnd ELSE discLog
    /\ UNCHANGED <<heartbeat, hbVars, optionVars, p0Vars, protoVars, postSendData, ioVars,
                   disconnectRet, inConnections, callApiSn, pending, item, callVars, histVars>>

\* -------------------------------------------------------------- heartbeat
HeartbeatTimeoutReason == "Receive heartbeat timeout"
\* The sns a received heartbeat may carry.
HeartbeatSns == 1..MaxHeartbeats

Max(a, b) == IF a > b THEN a ELSE b
Min(a, b) == IF a < b THEN a ELSE b
\* The timers ts without the i-th.
RemoveAt(ts, i) == SubSeq(ts, 1, i - 1) \o SubSeq(ts, i + 1, Len(ts))
\* The timers ts after TickMs.
Elapse(ts) == [i \in DOMAIN ts |-> Max(0, ts[i] - TickMs)]

\* _sendHeartbeat: nothing without _heartbeat; else a ping with the next sn is
\* given to _sendTransportData.
SendHeartbeat ==
    IF heartbeat
    THEN /\ hbSn' = CounterGetNext(hbSn)
         /\ hbLog' = SentHeartbeat(Heartbeat(CounterGetNext(hbSn), FALSE))
         /\ pongAges' = IF pongAges = <<>> THEN pongAges ELSE Tail(pongAges)
    ELSE UNCHANGED <<hbSn, hbLog, pongAges>>

\* The rest of the state, which the heartbeat leaves alone.
HeartbeatFrame ==
    UNCHANGED <<optionVars, discLog, p0Vars, protoVars, postSendData, callApiSn, pending, item, callVars, histVars,
                ioVars>>

\* TickMs go by while no armed timer is due.
Tick ==
    /\ \A i \in DOMAIN recvTimers : recvTimers[i] > 0
    /\ \A i \in DOMAIN straySend : straySend[i] > 0
    /\ sendTimer # 0
    /\ recvTimers' = Elapse(recvTimers)
    /\ straySend' = Elapse(straySend)
    /\ sendTimer' = IF sendTimer > 0 THEN Max(0, sendTimer - TickMs) ELSE sendTimer
    /\ idle' = IF recorded = "heartbeat" /\ status = "Connected"
               THEN Min(idle + TickMs, heartbeatRecvTimeout + TickMs) ELSE idle
    /\ pongAges' = [i \in DOMAIN pongAges |-> Min(pongAges[i] + TickMs, heartbeatSendInterval)]
    /\ UNCHANGED <<status, disconnecting, heartbeat, hbSn, hbRecv, hbPongs, hbLog, discReason,
                   lastSet>>
    /\ UNCHANGED <<disconnectRet, inConnections>>
    /\ HeartbeatFrame

\* _recvTransportData gets a heartbeat envelope: _recvHeartbeat. Nothing
\* without _heartbeat; else the receive timeout is reset, a pong arms the send
\* timer when heartbeatSendInterval is not 0, a ping is answered with the same
\* envelope and isReply.
RecvHeartbeat(sn, isReply) ==
    /\ hbRecv < MaxHeartbeats
    /\ hbRecv' = hbRecv + 1
    /\ idle' = 0
    /\ recvTimers' = ResetHeartbeatTimeout(heartbeat, recvTimers)
    /\ IF heartbeat /\ isReply
       THEN /\ hbPongs' = IF recorded = "heartbeat" THEN hbPongs + 1 ELSE hbPongs
            /\ pongAges' = IF recorded = "heartbeat" THEN Append(pongAges, 0) ELSE pongAges
            /\ IF heartbeatSendInterval # 0
               THEN /\ sendTimer' = heartbeatSendInterval
                    /\ straySend' = IF sendTimer >= 0 THEN Append(straySend, sendTimer)
                                    ELSE straySend
               ELSE UNCHANGED <<sendTimer, straySend>>
            /\ UNCHANGED hbLog
       ELSE /\ hbLog' = IF heartbeat THEN SentHeartbeat(Heartbeat(sn, TRUE)) ELSE hbLog
            /\ UNCHANGED <<hbPongs, pongAges, sendTimer, straySend>>
    /\ UNCHANGED <<status, disconnecting, heartbeat, hbSn, discReason, lastSet>>
    /\ UNCHANGED <<disconnectRet, inConnections>>
    /\ HeartbeatFrame

\* The i-th receive-timeout timer fires:
\* _disconnect(false, 'Receive heartbeat timeout').
RecvTimeoutFire(i) ==
    /\ i \in DOMAIN recvTimers
    /\ recvTimers[i] = 0
    /\ IF DisconnectEarlyReturn = "none"
       THEN DisconnectFor(HeartbeatTimeoutReason, RemoveAt(recvTimers, i))
       ELSE /\ recvTimers' = RemoveAt(recvTimers, i)
            /\ UNCHANGED <<status, disconnecting, heartbeat, hbSn, sendTimer, straySend, idle,
                           hbRecv, hbPongs, pongAges, hbLog, discReason, lastSet>>
            /\ disconnectRet' = IF recorded = "steps" THEN DisconnectEarlyReturn
                                ELSE disconnectRet
            /\ inConnections' = ConnectionsDelete(DisconnectEarlyReturn)
            /\ HeartbeatFrame

\* The timer of _heartbeat.sendTimer fires (after the older ones that are
\* due): _sendHeartbeat.
SendTimerFire ==
    /\ sendTimer = 0
    /\ \A i \in DOMAIN straySend : straySend[i] > 0
    /\ sendTimer' = -1
    /\ SendHeartbeat
    /\ UNCHANGED <<status, disconnecting, heartbeat, recvTimers, straySend, idle, hbRecv,
                   hbPongs, discReason, lastSet>>
    /\ UNCHANGED <<disconnectRet, inConnections>>
    /\ HeartbeatFrame

\* An armed send timer that _heartbeat.sendTimer does not refer to any more
\* fires: _sendHeartbeat.
StraySendFire(i) ==
    /\ i \in DOMAIN straySend
    /\ straySend[i] = 0
    /\ straySend' = RemoveAt(straySend, i)
    /\ SendHeartbeat
    /\ UNCHANGED <<status, disconnecting, heartbeat, recvTimers, sendTimer, idle, hbRecv,
                   hbPongs, discReason, lastSet>>
    /\ UNCHANGED <<disconnectRet, inConnections>>
    /\ HeartbeatFrame

\* ---------------------------------------------------------------- sendMsg
PreSendMsgOutcomes == {"pass", "cancel", "throw"}

\* sendMsg up to the await of the preSendMsg flow.
SendMsg(m) ==
    /\ msgPc[m] = "idle"
    /\ \A k \in Msgs : k < m => msgPc[k] # "idle"
    /\ msgPc' = [msgPc EXCEPT ![m] = "preSendMsgFlow"]
    /\ initLog' = Initiated(<<"msg", m>>)
    /\ UNCHANGED <<connVars, p0Vars, protoVars, postSendData, msgRet, msgPost, frameVars, sendLog, callApiSn, pending, item,
                   callVars, histVars>>

\* sendMsg gets the OpResult of _sendTransportData, runs the postSendMsg flow
\* and returns the OpResult.
MsgReturn(m, isSucc) ==
    /\ msgPc' = [msgPc EXCEPT ![m] = "resolved"]
    /\ msgRet' = [msgRet EXCEPT ![m] = IF isSucc THEN "succ" ELSE "fail"]
    /\ msgPost' = [msgPost EXCEPT ![m] = TRUE]

\* variant: a cancelled preSendMsg flow makes sendMsg return a failure
M_MsgCancelled(m) == MsgReturn(m, FALSE)
\* The preSendMsg flow returned null: sendMsg returns PROMISE_ABORTED, which
\* never settles.
MsgCancelled(m) ==
    /\ msgPc' = [msgPc EXCEPT ![m] = "aborted"]
    /\ UNCHANGED <<msgRet, msgPost>>

\* What sendMsg does with the state its _sendTransportData is in: failed, it
\* returns the failure; cancelled, the await never ends; else it goes on waiting.
MsgAfterSend(m, stage) ==
    IF stage = "failed" THEN MsgReturn(m, FALSE)
    ELSE /\ msgPc' = [msgPc EXCEPT ![m] = stage]
         /\ UNCHANGED <<msgRet, msgPost>>

\* sendMsg resumes from the preSendMsg flow: cancelled, it returns
\* PROMISE_ABORTED; else _sendTransportData, up to the preSendData flow.
PreSendMsgDone(m, o, enc) ==
    /\ msgPc[m] = "preSendMsgFlow"
    /\ IF FlowExec(o) = "null"
       THEN MsgCancelled(m)
       ELSE MsgAfterSend(m, SendStart(enc))
    /\ UNCHANGED <<connVars, p0Vars, protoVars, postSendData, frameVars, sendLogVars, callApiSn, pending, item,
                   callVars, histVars>>

\* _sendBox of the message resumes from the preSendData flow.
MsgPreSendDataDone(m, o) ==
    /\ msgPc[m] = "preSendData"
    /\ MsgAfterSend(m, SendAfterFlow(o))
    /\ sendLog' = IF SendAfterFlow(o) = "sendData" THEN Handed(<<"msg", m>>) ELSE sendLog
    /\ UNCHANGED <<connVars, p0Vars, protoVars, postSendData, frameVars, initLog, callApiSn, pending, item,
                   callVars, histVars>>

\* The transport's _sendData of the message resolves with an OpResult.
MsgSendDataDone(m, isSucc) ==
    /\ msgPc[m] = "sendData"
    /\ MsgReturn(m, isSucc)
    /\ postSendData' = [postSendData EXCEPT !.msg[m] = @ + PostSendDataRuns(isSucc)]
    /\ UNCHANGED <<connVars, p0Vars, protoVars, frameVars, sendLogVars, callApiSn, pending, item,
                   callVars, histVars>>

\* -------------------------------------------------------------- _recvData
PreRecvDataOutcomes == {"pass", "cancel", "throw", "decoded"}
\* TransportDataUtil.decodeBox* and decodeBody*: an OpResult
DecodeOutcomes == {"ok", "boxErr", "bodyErr"}

\* _recvData up to the await of the preRecvData flow: the data is ignored when
\* the connection is not Connected.
RecvData(f) ==
    /\ framePc[f] = "idle"
    /\ \A g \in Frames : g < f => framePc[g] # "idle"
    /\ framePc' = [framePc EXCEPT ![f] = IF status # "Connected" THEN "dropped"
                                         ELSE "preRecvData"]
    /\ frameRet' = [frameRet EXCEPT ![f] = IF status # "Connected" THEN "aborted" ELSE "none"]
    /\ UNCHANGED <<connVars, p0Vars, protoVars, postSendData, msgVars, frameTo, frameReply, sendLogVars, callApiSn,
                   pending, item, callVars, histVars>>

\* _recvData or _recvBox calls _recvTransportData for the frame, and _recvData
\* returns { isSucc: true }.
FrameDispatch(f, type, sn, err, protoInfo) ==
    /\ framePc' = [framePc EXCEPT ![f] = "dispatched"]
    /\ frameTo' = [frameTo EXCEPT ![f] = type]
    /\ frameRet' = [frameRet EXCEPT ![f] = "succ"]
    /\ UNCHANGED frameReply
    /\ Dispatch(type, sn, err, protoInfo)

\* _recvData or _recvBox answers a frame that cannot be decoded with an err:
\* _sendTransportData, not awaited, up to the preSendData flow; _recvData
\* returns r.
FrameReply(f, envelope, enc, r) ==
    /\ framePc' = [framePc EXCEPT ![f] = IF SendStart(enc) = "failed" THEN "decodeErr"
                                         ELSE "replyPreSendData"]
    /\ frameReply' = [frameReply EXCEPT ![f] = envelope]
    /\ frameRet' = [frameRet EXCEPT ![f] = r]
    /\ UNCHANGED <<frameTo, protoVars, callApiSn, pending, item, callVars, histVars>>

\* variant: no answer to a box that cannot be decoded
M_BoxErrReply == NoEnvelope
\* The answer of _recvData to a box that cannot be decoded
BoxErrReply == ErrEnvelope(0, "RemoteError")

\* variant: the answer to a req whose body cannot be decoded has sn 0
M_BodyErrReply(sn) == ErrEnvelope(0, "RemoteError")
\* The answer of _recvBox to a req whose body cannot be decoded
BodyErrReply(sn) == ErrEnvelope(sn, "RemoteError")

\* variant: a res whose body cannot be decoded is answered like a req
M_BodyErrAnswered == {"req", "res"}
\* The box types whose body decode failure is answered to the peer
BodyErrAnswered == {"req"}

\* _recvData resumes from the preRecvData flow: cancelled, it returns; data
\* decoded by the flow is dispatched; a box that cannot be decoded is answered
\* with an err of sn 0 and _recvData returns { isSucc: false }; else _recvBox
\* is called and _recvData returns { isSucc: true }: a body that cannot be
\* decoded is answered with an err (req), dispatched as an err of type
\* LocalError (res) or only logged, and a decoded body is dispatched. The
\* status is not looked at again.
PreRecvDataDone(f, o, dec, type, sn, err, protoInfo, enc) ==
    /\ framePc[f] = "preRecvData"
    /\ IF FlowExec(o) = "null"
       THEN /\ framePc' = [framePc EXCEPT ![f] = "cancelled"]
            /\ frameRet' = [frameRet EXCEPT ![f] = "aborted"]
            /\ UNCHANGED <<frameTo, frameReply, protoVars, callApiSn, pending, item, callVars,
                           histVars>>
       ELSE IF o = "decoded" THEN FrameDispatch(f, type, sn, err, protoInfo)
       ELSE IF dec = "boxErr" THEN FrameReply(f, BoxErrReply, enc, "fail")
       ELSE IF dec = "bodyErr"
       THEN IF type \in BodyErrAnswered THEN FrameReply(f, BodyErrReply(sn), enc, "succ")
            ELSE IF type = "res" THEN FrameDispatch(f, "err", sn, "LocalError", protoInfo)
            ELSE /\ framePc' = [framePc EXCEPT ![f] = "decodeErr"]
                 /\ frameRet' = [frameRet EXCEPT ![f] = "succ"]
                 /\ UNCHANGED <<frameTo, frameReply, protoVars, callApiSn, pending, item,
                                callVars, histVars>>
       ELSE FrameDispatch(f, type, sn, err, protoInfo)
    /\ UNCHANGED <<connVars, p0Vars, postSendData, msgVars, sendLogVars>>

\* _sendBox of the err answer resumes from the preSendData flow.
ReplyPreSendDataDone(f, o) ==
    /\ framePc[f] = "replyPreSendData"
    /\ framePc' = [framePc EXCEPT ![f] = IF SendAfterFlow(o) = "sendData" THEN "replySendData"
                                         ELSE "decodeErr"]
    /\ UNCHANGED <<connVars, p0Vars, protoVars, postSendData, msgVars, frameTo, frameReply, frameRet, sendLogVars,
                   callApiSn, pending, item, callVars, histVars>>

\* The transport's _sendData of the err answer resolves with an OpResult.
ReplySendDataDone(f, isSucc) ==
    /\ framePc[f] = "replySendData"
    /\ framePc' = [framePc EXCEPT ![f] = "decodeErr"]
    /\ postSendData' = [postSendData EXCEPT !.err[f] = @ + PostSendDataRuns(isSucc)]
    /\ UNCHANGED <<connVars, p0Vars, protoVars, msgVars, frameTo, frameReply, frameRet, sendLogVars,
                   callApiSn, pending, item, callVars, histVars>>

\* ------------------------------------------- callApi of src/unnamed/part_000
\* `sn: this._nextSn` in _doCallApi: the getter peeks at the counter
P0NextSn(c) == CounterPeek(p0CallApiSn)

\* abort(sn): nothing when the map has no item for sn; else delete it and set
\* isAborted.
P0AbortItem(sn) ==
    /\ p0Pending' = p0Pending \ {sn}
    /\ p0Aborted' = IF sn \in p0Pending THEN [p0Aborted EXCEPT ![sn] = TRUE] ELSE p0Aborted

P0Abort(sn) ==
    /\ sn \in p0Pending
    /\ P0AbortItem(sn)
    /\ UNCHANGED <<p0CallApiSn, p0Pc, p0ReqSn>>
    /\ UNCHANGED <<connVars, protoVars, postSendData, callApiSn, pending, item, callVars, histVars, ioVars>>

\* callApi up to the await of the preCallApi flow.
P0CallApi ==
    LET sn == CounterGetNext(p0CallApiSn) IN
    /\ sn \in P0Calls
    /\ p0CallApiSn' = sn
    /\ p0Pending' = p0Pending \cup {sn}
    /\ p0Pc' = [p0Pc EXCEPT ![sn] = "preCallApiFlow"]
    /\ UNCHANGED <<p0Aborted, p0ReqSn>>
    /\ UNCHANGED <<connVars, protoVars, postSendData, callApiSn, pending, item, callVars, histVars, ioVars>>

\* callApi resumes from the preCallApi flow: cancelled or aborted, abort and
\* return PROMISE_ABORTED; a return supplied by the flow goes on to the
\* preCallApiReturn flow; else _doCallApi makes the req envelope, starts the
\* send and the wait and awaits them.
P0PreCallDone(c, o) ==
    /\ p0Pc[c] = "preCallApiFlow"
    /\ IF FlowExec(o) = "null" \/ p0Aborted[c]
       THEN /\ P0AbortItem(c)
            /\ p0Pc' = [p0Pc EXCEPT ![c] = "aborted"]
            /\ UNCHANGED p0ReqSn
       ELSE IF FlowExec(o) = "return"
       THEN /\ p0Pc' = [p0Pc EXCEPT ![c] = "preCallApiReturnFlow"]
            /\ UNCHANGED <<p0Pending, p0Aborted, p0ReqSn>>
       ELSE /\ p0ReqSn' = [p0ReqSn EXCEPT ![c] = P0NextSn(c)]
            /\ p0Pc' = [p0Pc EXCEPT ![c] = "doCallApi"]
            /\ UNCHANGED <<p0Pending, p0Aborted>>
    /\ UNCHANGED p0CallApiSn
    /\ UNCHANGED <<connVars, protoVars, postSendData, callApiSn, pending, item, callVars, histVars, ioVars>>

\* _doCallApi returns: with the error of a failed send (the item stays in the
\* map), or with what resolved promiseReturn (onReturn or the timer, which
\* deleted the sn). callApi returns PROMISE_ABORTED when the item is aborted,
\* else goes on to the preCallApiReturn flow.
P0DoCallApiDone(c, sendOk) ==
    /\ p0Pc[c] = "doCallApi"
    /\ p0Pending' = IF sendOk THEN p0Pending \ {c} ELSE p0Pending
    /\ p0Pc' = [p0Pc EXCEPT ![c] = IF p0Aborted[c] THEN "aborted" ELSE "preCallApiReturnFlow"]
    /\ UNCHANGED <<p0CallApiSn, p0Aborted, p0ReqSn>>
    /\ UNCHANGED <<connVars, protoVars, postSendData, callApiSn, pending, item, callVars, histVars, ioVars>>

\* callApi resumes from the preCallApiReturn flow.
P0PreReturnDone(c, o) ==
    /\ p0Pc[c] = "preCallApiReturnFlow"
    /\ IF FlowExec(o) = "null" \/ p0Aborted[c]
       THEN /\ P0AbortItem(c)
            /\ p0Pc' = [p0Pc EXCEPT ![c] = "aborted"]
       ELSE /\ p0Pending' = p0Pending \ {c}
            /\ p0Pc' = [p0Pc EXCEPT ![c] = "resolved"]
            /\ UNCHANGED p0Aborted
    /\ UNCHANGED <<p0CallApiSn, p0ReqSn>>
    /\ UNCHANGED <<connVars, protoVars, postSendData, callApiSn, pending, item, callVars, histVars, ioVars>>

\* ------------------------------------------------------------ specification
CallStep(c) ==
    \/ \E o \in PreCallOutcomes, enc \in EncodeOutcomes : PreCallDone(c, o, enc)
    \/ \E o \in PreSendDataOutcomes : PreSendDataDone(c, o)
    \/ \E isSucc \in BOOLEAN : SendDataDone(c, isSucc)
    \/ \E o \in PreReturnOutcomes : PreReturnDone(c, o)
    \/ TimerFire(c)

Next ==
    \/ Connect
    \/ ConnectOk
    \/ Disconnect
    \/ DisconnectRefused
    \/ \E o \in DoDisconnectOutcomes : DoDisconnectDone(o)
    \/ \E opt \in TimeoutOptions, k \in AbortKeys : CallApi(opt, k)
    \/ \E c \in Calls : CallStep(c)
    \/ \E type \in {"res", "err"}, sn \in 0..MaxCalls : RecvTransportData(type, sn, "ApiError", FALSE)
    \/ \E sn \in Calls : Abort(sn)
    \/ \E k \in AbortByKeyArgs : AbortByKey(k)
    \/ AbortAll

Spec == Init /\ [][Next]_vars
SpecAbort == InitAbort /\ [][Next]_vars
SpecDisconnect == InitDisconnect /\ [][Next]_vars
SpecRecv == InitRecv /\ [][Next]_vars
SpecAbortAgain == InitAbortAgain /\ [][Next]_vars
SpecAbortByKey == InitAbortByKey /\ [][Next]_vars
SpecSteps == InitSteps /\ [][Next]_vars
SpecOrder == InitOrder /\ [][Next]_vars
SpecRemoteErr == InitRemoteErr /\ [][Next]_vars

\* The sends of a connection: calls and messages, while it connects and
\* disconnects.
MsgStep(m) ==
    \/ \E o \in PreSendMsgOutcomes, enc \in EncodeOutcomes : PreSendMsgDone(m, o, enc)
    \/ \E o \in PreSendDataOutcomes : MsgPreSendDataDone(m, o)
    \/ \E isSucc \in BOOLEAN : MsgSendDataDone(m, isSucc)

NextSend ==
    \/ Connect
    \/ ConnectOk
    \/ Disconnect
    \/ \E o \in DoDisconnectOutcomes : DoDisconnectDone(o)
    \/ \E opt \in TimeoutOptions : CallApi(opt, Undefined)
    \/ \E c \in Calls : CallStep(c)
    \/ \E m \in Msgs : SendMsg(m)
    \/ \E m \in Msgs : MsgStep(m)

SpecSend == Init /\ [][NextSend]_vars

\* The sends of a connection that stays connected.
NextSendOrder ==
    \/ Connect
    \/ ConnectOk
    \/ CallApi(NoTimeoutOption, Undefined)
    \/ \E c \in Calls : CallStep(c)
    \/ \E m \in Msgs : SendMsg(m)
    \/ \E m \in Msgs : MsgStep(m)

SpecSendOrder == InitSendOrder /\ [][NextSendOrder]_vars

\* The receive pipeline of a connection, while it connects and disconnects.
\* What a dispatched return does to a pending call is in the runs of Next,
\* where RecvTransportData comes at any moment.
FrameStep(f) ==
    \/ \E o \in PreRecvDataOutcomes, dec \in DecodeOutcomes, type \in TransportDataTypes :
          \E sn \in (IF type \in {"req", "res", "err"} THEN 0..MaxCalls ELSE {0}),
             enc \in (IF dec = "boxErr" \/ type = "req" THEN EncodeOutcomes ELSE {"ok"}) :
                PreRecvDataDone(f, o, dec, type, sn, "ApiError", FALSE, enc)
    \/ \E o \in PreSendDataOutcomes : ReplyPreSendDataDone(f, o)
    \/ \E isSucc \in BOOLEAN : ReplySendDataDone(f, isSucc)

NextRecv ==
    \/ Connect
    \/ ConnectOk
    \/ Disconnect
    \/ \E o \in DoDisconnectOutcomes : DoDisconnectDone(o)
    \/ \E f \in Frames : RecvData(f)
    \/ \E f \in Frames : FrameStep(f)

SpecRecvData == Init /\ [][NextRecv]_vars

\* The first frame the transport gives to _recvData
FirstFrame == {f \in Frames : \A g \in Frames : f <= g}

\* The receive pipeline of a connection that stays connected and makes calls:
\* what one inbound frame does to the calls that are pending.
NextRecvCalls ==
    \/ Connect
    \/ ConnectOk
    \/ \E opt \in TimeoutOptions : CallApi(opt, Undefined)
    \/ \E c \in Calls : CallStep(c)
    \/ \E f \in FirstFrame : RecvData(f)
    \/ \E f \in FirstFrame : FrameStep(f)

SpecRecvCalls == Init /\ [][NextRecvCalls]_vars

\* The exchange of ProtoInfo: calls and inbound envelopes with and without
\* protoInfo, while the connection connects and disconnects.
NextProto ==
    \/ Connect
    \/ ConnectOk
    \/ Disconnect
    \/ \E o \in DoDisconnectOutcomes : DoDisconnectDone(o)
    \/ CallApi(NoTimeoutOption, Undefined)
    \/ \E c \in Calls : CallStep(c)
    \/ \E type \in {"req", "res", "err"}, sn \in 0..MaxCalls, protoInfo \in BOOLEAN :
          RecvTransportData(type, sn, "ApiError", protoInfo)

InitProto == Init /\ callApiTimeout = DefaultCallApiTimeout
SpecProto == InitProto /\ [][NextProto]_vars

\* The heartbeat of a connection, while it connects and disconnects and time
\* goes by.
NextHeartbeat ==
    \/ Connect
    \/ ConnectOk
    \/ AssignSameStatus
    \/ Disconnect
    \/ \E o \in DoDisconnectOutcomes : DoDisconnectDone(o)
    \/ Tick
    \/ \E sn \in HeartbeatSns, isReply \in BOOLEAN : RecvHeartbeat(sn, isReply)
    \/ \E i \in 1..MaxHeartbeats : RecvTimeoutFire(i)
    \/ SendTimerFire
    \/ \E i \in 1..MaxHeartbeats : StraySendFire(i)

SpecHeartbeat == InitHeartbeat /\ [][NextHeartbeat]_vars

\* A connection of a server with the default heartbeat: whatever invokes its
\* _disconnect, in whatever status.
NextServer ==
    \/ Connect
    \/ ConnectOk
    \/ Disconnect
    \/ DisconnectRefused
    \/ \E o \in DoDisconnectOutcomes : DoDisconnectDone(o)
    \/ Tick
    \/ \E sn \in HeartbeatSns, isReply \in BOOLEAN : RecvHeartbeat(sn, isReply)
    \/ \E i \in 1..MaxHeartbeats : RecvTimeoutFire(i)
    \/ SendTimerFire
    \/ \E i \in 1..MaxHeartbeats : StraySendFire(i)

InitServer ==
    /\ InitServerConn /\ HeartbeatOn /\ recorded = "steps"
    /\ callApiTimeout = DefaultCallApiTimeout
SpecServer == InitServer /\ [][NextServer]_vars

\* The calls of the connection of src/unnamed/part_000.
P0Step(c) ==
    \/ \E o \in PreCallOutcomes : P0PreCallDone(c, o)
    \/ \E sendOk \in BOOLEAN : P0DoCallApiDone(c, sendOk)
    \/ \E o \in PreReturnOutcomes : P0PreReturnDone(c, o)

NextP0 ==
    \/ P0CallApi
    \/ \E c \in P0Calls : P0Step(c)
    \/ \E sn \in P0Calls : P0Abort(sn)

InitP0 == Init /\ callApiTimeout = DefaultCallApiTimeout
SpecP0 == InitP0 /\ [][NextP0]_vars

\* Every flow execution, every transport send and every armed timer comes to
\* its end: the steps of the calls are taken while they are possible. Calls,
\* envelopes, aborts and disconnects are up to the environment.
SpecLive == Init /\ [][Next]_vars /\ WF_vars(\E c \in Calls : CallStep(c))

\* ================================================================= claims

C2_AbortedNeverSettles ==
    \A c \in Calls :
        (abortNoop[c] \/ item[c].isAborted) => pc[c] \notin {"resolved", "rejected"}

\* C3: over any sequence of envelopes, timeouts, aborts and disconnects, the
\* onReturn of a pending item is invoked at most once, and never once the
\* item is aborted.
C3_OnReturnAtMostOnce ==
    \A c \in Calls : onReturnCalls[c] <= 1 /\ ~onReturnAborted[c]
\* One item's onReturn was invoked and its call resolved; another item was
\* aborted after its wait had started, and the connection was closed since.
C3_Witness ==
    \E c, d \in Calls :
        /\ onReturnCalls[c] = 1 /\ pc[c] = "resolved"
        /\ item[d].isAborted /\ sendStage[d] # "none" /\ onReturnCalls[d] = 0
        /\ status = "Disconnecting"

C5_AtMostOneResolution ==
    /\ [](\A c \in Calls :
            /\ onReturnCalls[c] + timerFired[c] <= 1
            /\ waitRes[c] # None =>
                 /\ onReturnCalls[c] + timerFired[c] = 1
                 /\ c \notin DOMAIN pending
                 /\ ~timer[c])
    /\ [][\A c \in Calls :
            waitRes[c] # None =>
                /\ waitRes'[c] = waitRes[c]
                /\ c \notin DOMAIN pending'
                /\ (lateRecv'[c] /\ ~lateRecv[c]) => UNCHANGED <<pending, callVars, item, countVars>>]_vars
\* A wait was resolved by its timeout and an envelope for the sn came later,
\* and the call resolved to the timeout.
C5_Witness ==
    \E c \in Calls :
        /\ waitRes[c] = TimeoutReturn /\ lateRecv[c]
        /\ pc[c] = "resolved" /\ ret[c] = TimeoutReturn

C7_UnsettledOnlyIfAborted ==
    \A c \in Calls :
        (pc[c] = "preCallApiFlow" /\ EffectiveTimeout(optTimeout[c]) > 0) ~>
            \/ pc[c] = "resolved"
            \/ pc[c] = "aborted" \/ item[c].isAborted

\* C7 (amended): every call with an effective timeout above 0 settles unless
\* it is aborted or the preSendData flow cancels its send.
C7_UnsettledOnlyIfAbortedOrSendCancelled ==
    \A c \in Calls :
        (pc[c] = "preCallApiFlow" /\ EffectiveTimeout(optTimeout[c]) > 0) ~>
            \/ pc[c] = "resolved"
            \/ pc[c] = "aborted" \/ item[c].isAborted
            \/ sendStage[c] = "cancelled"
\* A call that was never aborted and got no return has settled by its
\* timeout, and the wait of a call whose send was cancelled has timed out.
C7_Witness ==
    \E c, d \in Calls :
        /\ pc[c] = "resolved" /\ ret[c] = TimeoutReturn /\ ~item[c].isAborted
        /\ pc[d] = "send" /\ sendStage[d] = "cancelled" /\ waitRes[d] = TimeoutReturn

\* C8: abortByKey(K) aborts every pending call whose abortKey is K and no
\* other: the map holds no item with key K afterwards, every other item and
\* its call are unchanged, the aborted calls never settle, and later
\* envelopes for their sns invoke nothing.
C8_AbortByKey ==
    /\ [][\A k \in AbortByKeyArgs :
            AbortByKey(k) =>
                /\ \A sn \in DOMAIN pending :
                      IF pending[sn].abortKey = k
                      THEN /\ sn \notin DOMAIN pending'
                           /\ item'[sn].isAborted
                           /\ ~item'[sn].onReturn
                      ELSE /\ sn \in DOMAIN pending'
                           /\ pending'[sn] = pending[sn]
                           /\ item'[sn] = item[sn]
                /\ DOMAIN pending' \subseteq DOMAIN pending
                /\ \A c \in Calls \ DOMAIN pending : item'[c] = item[c]
                /\ UNCHANGED <<callVars, connVars, callApiSn, onReturnCalls>>]_vars
    /\ [][\A c \in Calls :
            keyAborted[c] =>
                /\ UNCHANGED <<onReturnCalls[c], item[c]>>
                /\ c \notin DOMAIN pending'
                /\ (lateRecv'[c] /\ ~lateRecv[c]) =>
                      UNCHANGED <<pending, item, callVars, connVars, countVars>>]_vars
    /\ [](\A c \in Calls :
            keyAborted[c] => item[c].isAborted /\ pc[c] \notin {"resolved", "rejected"})
\* abortByKey aborted a call with the key, a later envelope for its sn was
\* dropped, and a call without the key is still pending.
C8_Witness ==
    \E c, d \in Calls :
        /\ keyAborted[c] /\ lateRecv[c] /\ pc[c] = "aborted"
        /\ d \in DOMAIN pending /\ pending[d].abortKey = Undefined /\ pc[d] = "waitReturn"

\* C9: abort(sn) is idempotent: an abort of an sn that is not in the pending
\* map (never issued, returned, timed out, aborted before) changes no state,
\* and onAbort fires at most once per call.
C9_AbortIdempotent ==
    /\ [][\A sn \in Calls :
            (Abort(sn) /\ sn \notin DOMAIN pending) =>
                UNCHANGED <<pending, item, callVars, connVars, callApiSn, countVars>>]_vars
    /\ [](\A c \in Calls : onAbortCalls[c] <= 1)
\* A call was aborted and abort was called for its sn once more.
C9_Witness ==
    \E c \in Calls : item[c].isAborted /\ onAbortCalls[c] = 1 /\ lateAbort[c]

\* C10: once a callApi invocation has finished, resolved or returned the
\* aborted sentinel, the pending map has no item for its sn; when all issued
\* calls are finished the map is empty.
C10_NoItemAfterFinish ==
    /\ \A c \in Calls :
          (pc[c] \in {"resolved", "aborted"} \/ item[c].isAborted) => c \notin DOMAIN pending
    /\ (\A c \in Calls : pc[c] \in {"idle", "resolved", "aborted"}) => pending = NoPending
\* All calls are finished: one resolved to the send error, its item removed
\* by callApi's last statement only, another returned the aborted sentinel.
C10_Witness ==
    /\ \A c \in Calls : pc[c] \in {"resolved", "aborted"}
    /\ \E c, d \in Calls :
          /\ pc[c] = "resolved" /\ ret[c] = SendErrReturn /\ waitRes[c] = None /\ ~timer[c]
          /\ pc[d] = "aborted"

\* C11: _disconnect invoked while Disconnected, no disconnect in flight, is
\* a no-op: it returns { isSucc: true } and changes neither the status, the
\* heartbeat nor the pending map, and runs neither _doDisconnect nor the
\* postDisconnect flow.
C11_DisconnectWhenDisconnected ==
    [][(status = "Disconnected" /\ ~disconnecting /\ (Disconnect \/ DisconnectRefused)) =>
          /\ disconnectRet' = "succ"
          /\ UNCHANGED <<status, disconnecting, heartbeat, pending, item, callVars,
                         discLog, countVars>>]_vars
\* _disconnect has returned { isSucc: true } on a Disconnected connection that
\* has a pending call and has been through a disconnect before.
C11_Witness ==
    /\ disconnectRet = "succ" /\ status = "Disconnected" /\ ~disconnecting
    /\ DOMAIN pending # {}
    /\ discLog # <<>>

\* C12 (as stated): _disconnect invoked while Connecting or Disconnecting is
\* rejected: it returns { isSucc: false, errMsg } and leaves the status, the
\* heartbeat and the pending map unchanged.
C12_RejectedWhenConnectingOrDisconnecting ==
    [][(status \in {"Connecting", "Disconnecting"} /\ (Disconnect \/ DisconnectRefused)) =>
          /\ disconnectRet' = "err"
          /\ UNCHANGED <<status, disconnecting, heartbeat, pending>>]_vars

\* C12 (amended): _disconnect invoked while Connecting, or while
\* Disconnecting with no disconnect in flight, returns { isSucc: false,
\* errMsg }; invoked while a disconnect is in flight it returns the promise of
\* that disconnect; in each case it leaves the status, the heartbeat and the
\* pending map unchanged and starts nothing.
C12_RejectedUnlessInFlight ==
    [][(status \in {"Connecting", "Disconnecting"} /\ (Disconnect \/ DisconnectRefused)) =>
          /\ disconnectRet' = IF disconnecting THEN "promise" ELSE "err"
          /\ UNCHANGED <<status, disconnecting, heartbeat, pending, item, callVars,
                         discLog, countVars>>]_vars
\* _disconnect has returned the error on a Connecting connection that has a
\* pending call.
C12_Witness ==
    /\ disconnectRet = "err" /\ status = "Connecting"
    /\ DOMAIN pending # {}

\* C13: concurrent _disconnect calls share one disconnect: while it is in
\* flight every further call returns its promise and starts nothing, and when
\* it is over the heartbeat was stopped once, the pending calls were failed
\* once, _doDisconnect was called once and the postDisconnect flow ran once.
C13_OneDisconnect ==
    /\ [][(disconnecting /\ (Disconnect \/ DisconnectRefused)) =>
            /\ disconnectRet' = "promise"
            /\ UNCHANGED <<status, disconnecting, heartbeat, pending, item, callVars,
                           discLog, countVars>>]_vars
    /\ [](\A c \in Calls : onReturnCalls[c] <= 1)
    /\ []((~disconnecting /\ discLog # <<>>) =>
            discLog = <<"Disconnecting", "stopHeartbeat", "LOST_CONN", "doDisconnect",
                        "Disconnected", "postDisconnect">>)

C15_DisconnectEndsDisconnected ==
    ~disconnecting => status # "Disconnecting"

\* C16: every change of the status is Disconnected -> Connecting, Connecting
\* -> Connected, Connected -> Disconnecting or Disconnecting -> Disconnected,
\* and _disconnect changes no status when called in Connecting or Disconnected.
C16_StatusTransitions ==
    /\ [][status' # status =>
            <<status, status'>> \in {<<"Disconnected", "Connecting">>,
                                     <<"Connecting", "Connected">>,
                                     <<"Connected", "Disconnecting">>,
                                     <<"Disconnecting", "Disconnected">>}]_vars
    /\ [][(status \in {"Connecting", "Disconnected"} /\ (Disconnect \/ DisconnectRefused)) =>
            status' = status]_vars
\* The status has gone round: a call was failed by a disconnect and the
\* connection is Connected again.
C16_Witness ==
    /\ status = "Connected"
    /\ \E c \in Calls : waitRes[c] = LostConnReturn

\* C17: _sendData is never invoked while the status is not Connected, also
\* when the status changed during the preSendData flow; and a send of callApi
\* or sendMsg that is attempted, or comes out of its preSendData flow, while
\* the status is not Connected fails: sendMsg returns a failure, callApi gets
\* the LocalError return.
C17_NoSendUnlessConnected ==
    /\ [][\A c \in Calls :
            (sendStage'[c] = "sendData" /\ sendStage[c] # "sendData") =>
                status = "Connected" /\ status' = "Connected"]_vars
    /\ [][\A m \in Msgs :
            (msgPc'[m] = "sendData" /\ msgPc[m] # "sendData") =>
                status = "Connected" /\ status' = "Connected"]_vars
    /\ [][\A c \in Calls :
            /\ (status # "Connected" /\ pc[c] = "preCallApiFlow" /\ item'[c].onReturn) =>
                  /\ sendStage'[c] = "failed"
                  /\ ret'[c] = SendErrReturn
                  /\ ~ret'[c].isSucc /\ ret'[c].type = "LocalError"
            /\ (status # "Connected" /\ sendStage[c] = "preSendData"
                  /\ sendStage'[c] \notin {"preSendData", "cancelled"}) =>
                  /\ sendStage'[c] = "failed"
                  /\ ~item[c].isAborted => ret'[c] = SendErrReturn]_vars
    /\ [][\A m \in Msgs :
            (status # "Connected" /\ msgPc[m] \in {"preSendMsgFlow", "preSendData"}
               /\ msgPc'[m] \notin {msgPc[m], "aborted", "cancelled"}) =>
                  msgPc'[m] = "resolved" /\ msgRet'[m] = "fail"]_vars
\* While the connection is Disconnecting a sendMsg is suspended in its
\* preSendData flow, a call's send has failed after that flow and the call has
\* resolved to the LocalError.
C17_Witness ==
    /\ status = "Disconnecting"
    /\ \E m \in Msgs : msgPc[m] = "preSendData"
    /\ \E c \in Calls :
          /\ sendStage[c] = "failed" /\ pc[c] = "resolved"
          /\ ret[c] = SendErrReturn

\* C18: no inbound data is dispatched to _recvApiReq, _recvApiReturn,
\* _recvMsg or _recvHeartbeat while the status is not Connected, wherever in
\* the receive pipeline the frame was when the status changed.
C18_NoDispatchUnlessConnected ==
    [][\A f \in Frames :
          (framePc'[f] = "dispatched" /\ framePc[f] # "dispatched"
             /\ frameTo'[f] \in {"req", "res", "err", "msg", "heartbeat"}) =>
                status = "Connected"]_vars

\* C19: the frames of the sends are handed to _sendData in the order in which
\* the sends were initiated.
C19_SendOrder ==
    \A i, j \in DOMAIN sendLog :
        i < j => \E a, b \in DOMAIN initLog :
                    a < b /\ initLog[a] = sendLog[i] /\ initLog[b] = sendLog[j]

\* C20: the frames are dispatched in the order in which the transport gave
\* them to _recvData: when a frame is dispatched no later frame has been.
C20_DispatchOrder ==
    [][\A f \in Frames :
          (framePc'[f] = "dispatched" /\ framePc[f] # "dispatched") =>
              \A g \in Frames : g > f => framePc[g] # "dispatched"]_vars

\* C23: when the preSendMsg flow is cancelled, sendMsg never settles, its
\* message is never handed to _sendData and the postSendMsg flow is not run:
\* the step that ends the flow changes nothing else, and nothing happens to
\* that sendMsg afterwards.
C23_PreSendMsgCancelled ==
    /\ [][\A m \in Msgs, o \in {"cancel", "throw"} :
            (\E enc \in EncodeOutcomes : PreSendMsgDone(m, o, enc)) =>
                /\ msgPc'[m] = "aborted"
                /\ UNCHANGED <<msgRet, msgPost, sendLogVars, connVars, frameVars, callApiSn,
                               pending, item, callVars>>]_vars
    /\ [][\A m \in Msgs :
            msgPc[m] = "aborted" =>
                msgPc'[m] = "aborted" /\ msgRet'[m] = msgRet[m] /\ msgPost'[m] = msgPost[m]]_vars
    /\ [](\A m \in Msgs :
            msgPc[m] = "aborted" =>
                /\ msgRet[m] = "none" /\ ~msgPost[m]
                /\ \A i \in DOMAIN sendLog : sendLog[i] # <<"msg", m>>)
\* A sendMsg whose preSendMsg flow was cancelled on a Connected connection,
\* while a call made after it has had its frame handed to _sendData.
C23_Witness ==
    /\ status = "Connected"
    /\ \E m \in Msgs :
          /\ msgPc[m] = "aborted"
          /\ initLog # <<>> /\ initLog[1] = <<"msg", m>>
    /\ sendLog # <<>>

\* C24: a call made with TransportOptions.timeout undefined has no timeout:
\* whatever options.callApiTimeout is, it is never resolved with a 'TIMEOUT'
\* error.  (Stated for the specifications in which every callApi is made
\* without a timeout option.)
C24_NoTimeoutWhenUndefined ==
    \A c \in Calls : waitRes[c] # TimeoutReturn /\ ret[c] # TimeoutReturn

\* C25: when the encoding or the sending of the request fails, the call goes
\* on at once with {isSucc: false, err: LocalError with the send's errMsg}: it
\* waits neither for the reply nor for the timeout, and no later reply,
\* timeout or disconnect changes that return (only the preCallApiReturn flow
\* of the call itself can replace it).
C25_SendFailureReturned ==
    /\ [][\A c \in Calls :
            sendStage[c] # "failed" /\ sendStage'[c] = "failed" /\ ~item[c].isAborted =>
                ret'[c] = SendErrReturn /\ pc'[c] = "preCallApiReturnFlow"]_vars
    /\ [][\A c \in Calls :
            sendStage[c] = "failed" /\ ret[c] = SendErrReturn =>
                ret'[c] = SendErrReturn \/ PreReturnDone(c, "replace")]_vars
    /\ [](\A c \in Calls :
            sendStage[c] = "failed" /\ pc[c] = "resolved" =>
                ret[c] \in {SendErrReturn, FlowReturn})
\* reached: a call resolved with the LocalError of its failed send although
\* its timer fired afterwards and the connection was lost.
C25_Witness ==
    \E c \in Calls :
        /\ sendStage[c] = "failed" /\ pc[c] = "resolved" /\ ret[c] = SendErrReturn
        /\ waitRes[c] = TimeoutReturn
        /\ status = "Disconnected"

\* C26: the sns assigned by callApi on one connection are pairwise distinct,
\* at least 1 and strictly increasing in the order of the invocations (below
\* the wrap of the counter), so no two pending calls share an sn and
\* registering a call leaves every other pending entry as it was.
C26_SnsDistinctIncreasing ==
    /\ [](\A i, j \in DOMAIN initLog :
            i < j /\ initLog[i][1] = "api" /\ initLog[j][1] = "api" =>
                1 <= initLog[i][2] /\ initLog[i][2] < initLog[j][2])
    /\ [][callApiSn' # callApiSn =>
            /\ callApiSn' > callApiSn /\ callApiSn' >= 1
            /\ callApiSn' \notin DOMAIN pending
            /\ DOMAIN pending' = DOMAIN pending \cup {callApiSn'}
            /\ \A k \in DOMAIN pending : pending'[k] = pending[k]]_vars
    /\ [](\A sn \in DOMAIN pending : 1 <= sn /\ sn <= callApiSn)
\* reached: two calls pending at once, registered one after the other.
C26_Witness ==
    /\ DOMAIN pending = {1, 2}
    /\ \E i, j \in DOMAIN initLog : i < j /\ initLog[i] = <<"api", 1>> /\ initLog[j] = <<"api", 2>>
    /\ \A c \in Calls : Unsettled(c)

\* C27: in the connection of src/unnamed/part_000 the req envelope made for
\* a call carries the sn under which the call's pending item was registered,
\* also when other calls are started while it is suspended in its preCallApi
\* flow.
C27_ReqCarriesItsSn ==
    \A c \in P0Calls : p0ReqSn[c] \in {0, c}

\* C21: on a Connected connection with options.heartbeat = true, whatever
\* heartbeatSendInterval is (0, receive-only, included), when no heartbeat
\* has been received for heartbeatRecvTimeout ms the connection is
\* disconnected with 'Receive heartbeat timeout': it is never Connected and
\* idle for longer than heartbeatRecvTimeout.
C21_IdleTimeoutDisconnects ==
    (status = "Connected" /\ optHeartbeat) => idle <= heartbeatRecvTimeout

\* C22: a Connected connection with options.heartbeat = true that receives a
\* ping (isReply not set) gives a heartbeat with the same sn and isReply =
\* true to _sendTransportData, whatever heartbeatSendInterval is (0 included).
C22_PingAnswered ==
    [][\A sn \in HeartbeatSns :
          (status = "Connected" /\ optHeartbeat /\ RecvHeartbeat(sn, FALSE)) =>
              hbLog' = Append(hbLog, Heartbeat(sn, TRUE))]_vars

C30_PingAfterPong ==
    /\ [][(status # "Connected" /\ status' = "Connected" /\ optHeartbeat
             /\ heartbeatSendInterval # 0) =>
                hbLog' = <<Heartbeat(1, FALSE)>>]_vars
    /\ [][(status = "Connected" /\ hbSn' # hbSn /\ hbSn' # 0) =>
            /\ pongAges # <<>>
            /\ Head(pongAges) >= heartbeatSendInterval
            /\ pongAges' = Tail(pongAges)]_vars
    /\ [](\A i, j \in DOMAIN hbLog :
            (i < j /\ ~hbLog[i].isReply /\ ~hbLog[j].isReply) => hbLog[i].sn < hbLog[j].sn)

\* C31: the heartbeat state (_heartbeat, its send timers and its receive
\* timers) is there only while options.heartbeat is true and the status is
\* Connected: once a disconnect has begun no heartbeat timer is left armed
\* that could send a ping or call _disconnect again.
C31_HeartbeatOnlyWhileConnected ==
    (heartbeat \/ recvTimers # <<>> \/ sendTimer >= 0 \/ straySend # <<>>) =>
        (optHeartbeat /\ status = "Connected")

\* C32: an inbound err envelope with sn = 0 is only logged: it invokes the
\* onReturn of no pending call and changes neither the map nor the state or
\* the result of any call, whatever calls are pending.
C32_RemoteErrOnlyLogged ==
    [][RecvTransportData("err", 0, "ApiError", FALSE) =>
          UNCHANGED <<pending, item, callVars, countVars, connVars, ioVars>>]_vars
\* reached: the err with sn 0 has been logged and both calls await their
\* return, registered in the map.
C32_Witness ==
    /\ remoteErrLogged
    /\ PendingSns = Calls
    /\ \A c \in Calls : pc[c] = "waitReturn" /\ item[c].onReturn /\ waitRes[c] = None

\* The outcomes of the preRecvData flow after which _recvData decodes the box
BoxDecoded == {o \in PreRecvDataOutcomes : FlowExec(o) # "null" /\ o # "decoded"}

\* C33: when the box of an inbound frame cannot be decoded, _recvData gives an
\* err envelope with sn 0 and type RemoteError to _sendTransportData, calls
\* _recvTransportData for nothing (no call, no sendMsg and no pending item is
\* touched) and returns { isSucc: false }.
C33_BoxDecodeFailure ==
    [][\A f \in Frames, o \in BoxDecoded, type \in TransportDataTypes, sn \in 0..MaxCalls,
          enc \in EncodeOutcomes :
          PreRecvDataDone(f, o, "boxErr", type, sn, "ApiError", FALSE, enc) =>
              /\ frameReply'[f] = ErrEnvelope(0, "RemoteError")
              /\ frameRet'[f] = "fail"
              /\ frameTo'[f] = "none"
              /\ UNCHANGED <<callApiSn, pending, item, callVars, histVars, msgVars>>]_vars
\* reached: the err with sn 0 of a frame is being sent by the transport, and
\* nothing was dispatched for the frame.
C33_Witness ==
    \E f \in Frames :
        /\ framePc[f] = "replySendData"
        /\ frameReply[f] = ErrEnvelope(0, "RemoteError")
        /\ frameRet[f] = "fail"
        /\ frameTo[f] = "none"

\* C34: when the body of an inbound req cannot be decoded, _recvBox gives an
\* err envelope with the sn of the req to _sendTransportData, does not call
\* _recvTransportData (so that no ApiCall is made and no API handler runs),
\* and no pending call of this side is touched, not even one with the same sn.
C34_ReqBodyDecodeFailure ==
    [][\A f \in Frames, o \in BoxDecoded, sn \in 0..MaxCalls, enc \in EncodeOutcomes :
          PreRecvDataDone(f, o, "bodyErr", "req", sn, "ApiError", FALSE, enc) =>
              /\ frameReply'[f] = ErrEnvelope(sn, "RemoteError")
              /\ frameTo'[f] = "none"
              /\ UNCHANGED <<callApiSn, pending, item, callVars, histVars>>]_vars
\* reached: the err for a req is being sent by the transport with the sn of
\* the req, while the call of this side with the same sn still awaits its
\* return.
C34_Witness ==
    \E f \in Frames, c \in Calls :
        /\ framePc[f] = "replySendData"
        /\ frameReply[f] = ErrEnvelope(c, "RemoteError")
        /\ frameTo[f] = "none"
        /\ c \in PendingSns /\ pc[c] = "waitReturn" /\ waitRes[c] = None

\* C35: when the body of an inbound res cannot be decoded, nothing is given
\* to _sendTransportData; the call that awaits the return for the sn of the
\* res gets { isSucc: false, err: LocalError } from promiseReturn, by the one
\* run of its onReturn, and no other call is touched; when the map has no item
\* for the sn, nothing changes for any call.
C35_ResBodyDecodeFailure ==
    [][\A f \in Frames, o \in BoxDecoded, sn \in 0..MaxCalls, enc \in EncodeOutcomes :
          PreRecvDataDone(f, o, "bodyErr", "res", sn, "ApiError", FALSE, enc) =>
              /\ frameReply'[f] = NoEnvelope
              /\ \A c \in Calls :
                    IF c = sn /\ c \in PendingSns /\ pc[c] = "waitReturn"
                    THEN /\ waitRes'[c] = ErrReturn("LocalError")
                         /\ ret'[c] = ErrReturn("LocalError")
                         /\ pc'[c] = "preCallApiReturnFlow"
                         /\ onReturnCalls[c] = 0 /\ onReturnCalls'[c] = 1
                         /\ timerFired'[c] = 0
                    ELSE pc'[c] = pc[c] /\ ret'[c] = ret[c]
              /\ sn \notin PendingSns =>
                    UNCHANGED <<callApiSn, pending, item, callVars, histVars>>]_vars
\* reached: callApi has resolved to the LocalError made from a res whose body
\* could not be decoded, after one run of onReturn, and no answer was made
\* for the frame.
C35_Witness ==
    \E f \in Frames, c \in Calls :
        /\ framePc[f] = "dispatched" /\ frameTo[f] = "err"
        /\ frameReply[f] = NoEnvelope
        /\ pc[c] = "resolved" /\ ret[c] = ErrReturn("LocalError")
        /\ onReturnCalls[c] = 1 /\ timerFired[c] = 0

\* C36: the req envelope _doCallApi makes has the local ProtoInfo exactly when
\* _remoteProtoInfo is not set at that moment; _remoteProtoInfo is set by the
\* dispatch of an inbound envelope that has a protoInfo, and once set it stays
\* set, through disconnects too, so that every req made later has none.
C36_ProtoInfoExchange ==
    /\ [][\A c \in Calls :
            reqProtoInfo'[c] # reqProtoInfo[c] =>
                /\ reqProtoInfo[c] = "unbuilt"
                /\ (reqProtoInfo'[c] = "included") <=> ~remoteProtoInfo
                /\ (reqProtoInfo'[c] = "omitted") <=> remoteProtoInfo]_vars
    /\ [][\A type \in {"req", "res", "err"}, sn \in 0..MaxCalls :
            RecvTransportData(type, sn, "ApiError", TRUE) => remoteProtoInfo']_vars
    /\ [][remoteProtoInfo' # remoteProtoInfo =>
            \E type \in TransportDataTypes, sn \in 0..MaxCalls :
                RecvTransportData(type, sn, "ApiError", TRUE)]_vars
    /\ [][remoteProtoInfo => remoteProtoInfo']_vars
\* reached: the first req had the local ProtoInfo, an envelope with protoInfo
\* came, and the req of the next call has none.
C36_Witness ==
    /\ remoteProtoInfo
    /\ \E c, d \in Calls :
          c < d /\ reqProtoInfo[c] = "included" /\ reqProtoInfo[d] = "omitted"

\* C37: when the preCallApi flow supplies a return, callApi gives nothing to
\* _sendTransportData, makes no req envelope and arms no timer, then and
\* until it ends, and when it resolves it resolves to what the
\* preCallApiReturn flow makes of the supplied return: that return, or the one
\* a middleware put in its place. When the preCallApi flow cancels, nothing is
\* sent, the sn is removed from the map and callApi never settles.
C37_PreCallApiFlowOutcome ==
    /\ [][\A c \in Calls, o \in PreCallOutcomes, enc \in EncodeOutcomes :
            (PreCallDone(c, o, enc) /\ o = "return" /\ ~item[c].isAborted) =>
                /\ sendStage'[c] = "none" /\ ~timer'[c] /\ reqProtoInfo'[c] = "unbuilt"
                /\ ret'[c] = SuppliedReturn
                /\ UNCHANGED <<sendLogVars, pending, item, waitRes>>]_vars
    /\ [][\A c \in Calls :
            (ret[c] = SuppliedReturn /\ pc[c] = "preCallApiReturnFlow") =>
                /\ sendStage'[c] = "none" /\ ~timer'[c] /\ reqProtoInfo'[c] = "unbuilt"
                /\ \A i \in DOMAIN sendLog' : sendLog'[i] # <<"api", c>>
                /\ pc'[c] = "resolved" =>
                      \/ PreReturnDone(c, "pass") /\ ret'[c] = SuppliedReturn
                      \/ PreReturnDone(c, "replace") /\ ret'[c] = FlowReturn]_vars
    /\ [][\A c \in Calls, o \in PreCallOutcomes, enc \in EncodeOutcomes :
            (PreCallDone(c, o, enc) /\ o \in {"cancel", "throw"}) =>
                /\ sendStage'[c] = "none" /\ ~timer'[c] /\ reqProtoInfo'[c] = "unbuilt"
                /\ UNCHANGED sendLogVars
                /\ c \notin DOMAIN pending' /\ c \in DOMAIN pending
                /\ pc'[c] = "aborted" /\ ret'[c] = None]_vars
    /\ [][\A c \in Calls : pc[c] = "aborted" => pc'[c] = "aborted" /\ ret'[c] = ret[c]]_vars
\* reached: one call has resolved to the return the preCallApi flow supplied
\* and the other is settled never after the flow cancelled it, neither has
\* sent anything, and the map is empty.
C37_Witness ==
    \E c, d \in Calls :
        /\ pc[c] = "resolved" /\ ret[c] = SuppliedReturn /\ sendStage[c] = "none"
        /\ pc[d] = "aborted" /\ ret[d] = None /\ sendStage[d] = "none" /\ ~item[d].onReturn
        /\ onAbortCalls[d] = 1
        /\ status = "Connected"
        /\ PendingSns = {} /\ sendLog = <<>>

\* C38: every item of the pending map is stored under its own sn and is not
\* aborted, and an aborted item is not in the map.
C38_PendingItemsNotAborted ==
    /\ \A k \in PendingSns : pending[k].sn = k /\ ~item[pending[k].sn].isAborted
    /\ \A c \in Calls : item[c].isAborted => c \notin PendingSns
\* reached: one call is aborted and out of the map while the other, made
\* before or after, is in the map under its sn and awaits its return.
C38_Witness ==
    \E c, d \in Calls :
        /\ item[c].isAborted /\ pc[c] = "aborted" /\ c \notin PendingSns
        /\ d \in PendingSns /\ pending[d].sn = d /\ ~item[d].isAborted
        /\ pc[d] = "waitReturn"

\* C39: the postSendData flow has been executed once for the frame of a call
\* or of a sendMsg when the transport's _sendData has returned isSucc: true
\* for it, and not at all before that or when the send failed, was cancelled
\* by the preSendData flow or was refused because the status was not
\* Connected.
C39_PostSendDataOnce ==
    /\ \A c \in Calls : postSendData.api[c] = (IF sendStage[c] = "ok" THEN 1 ELSE 0)
    /\ \A m \in Msgs : postSendData.msg[m] = (IF msgRet[m] = "succ" THEN 1 ELSE 0)
\* reached: the flow ran once for the call whose frame was sent, and not for
\* the call whose send the preSendData flow cancelled nor for the sendMsg
\* whose send failed.
C39_Witness ==
    \E c, d \in Calls, m \in Msgs :
        /\ sendStage[c] = "ok" /\ postSendData.api[c] = 1
        /\ sendStage[d] = "cancelled" /\ postSendData.api[d] = 0
        /\ msgRet[m] = "fail" /\ postSendData.msg[m] = 0

====
